---- MODULE Spec2Model ----
(***************************************************************************)
(* Model of src/src/addon.ts (StreamViX add-on).                           *)
(*                                                                         *)
(* The file holds three revisions of the add-on.  The channel-link cache   *)
(* (vavooCache, updateVavooCache, resolveVavooChannelByName) and the       *)
(* primary-first stream handler live in the revision at lines 224-1201;    *)
(* the revision at lines 1203-2009 holds the alternate stream handler.     *)
(*                                                                         *)
(* JavaScript runs each callback to completion, so every action below is   *)
(* one synchronous segment of the code: from an entry point or the         *)
(* resumption of an await up to the next await or return.                  *)
(***************************************************************************)
EXTENDS Integers, Sequences, FiniteSets, TLC

VARIABLES
    now,            \* Date.now()
    vavooCache,     \* [timestamp, links, updating]          (lines 519-523)
    disk,           \* cache file and its temporary file     (lines 526, 576)
    dumpsInFlight,  \* --dump-channels subprocesses running  (lines 599-602)
    startupPending, \* the setTimeout of line 664 has not fired yet
    nextPeriodic,   \* due time of the next setInterval tick (line 678)
    nResolves,      \* resolveVavooChannelByName calls made so far (bounds the run)
    ioFailures,     \* file-system failures so far (bounds the run)
    fallbacks,      \* the calls whose single-name resolver (line 798) is running
    lastResolve,    \* history: the resolveVavooChannelByName call of the latest step
    lastUpdate,     \* history: the updateVavooCache() call of the latest step
    lastRefresh,    \* history: the refresh the latest step brought back from its await
    flight,         \* history: callers and launches while a dump is in flight
    wholeMap,       \* history: the last completely produced link map
    env,            \* process.env
    configCache,    \* the shared settings                  (lines 257-265)
    req,            \* a stream request and how far its handler got
    lastMerge,      \* history: the Object.assign of the latest step (line 1135)
    configString,   \* the first path segment of a request  (line 1120)
    decodeResult,   \* what parseConfigFromArgs made of it   (line 1132)
    handled         \* history: what the middleware did with the segment

cacheVars == <<now, vavooCache, disk, dumpsInFlight, startupPending, nextPeriodic,
               nResolves, ioFailures, fallbacks, lastResolve, lastUpdate,
               lastRefresh, flight, wholeMap>>

streamVars == <<env, configCache, req, lastMerge>>

decodeVars == <<configString, decodeResult, handled>>

vars == <<cacheVars, streamVars, decodeVars>>

---------------------------------------------------------------------------
(* Bounds of the model *)
MaxTicks == 2
MaxResolves == 2
MaxIoFailures == 1
MaxClockTicks == 6

(* Program constants *)
CACHE_MAX_AGE == 12 * 60 * 60 * 1000
VAVOO_UPDATE_INTERVAL == 12 * 60 * 60 * 1000
STARTUP_DELAY == 2000

\* Date.now() when the module is loaded: any instant later than 12 h after the epoch
StartTime == 4 * CACHE_MAX_AGE

Null == "null"

ChannelA == "Channel A"
ChannelB == "Channel B"
ChannelNames == {ChannelA, ChannelB}

\* the channel the callers ask for; the maps hold it or not
ResolveNames == {ChannelA}

UrlXY == "http://x/y"
UrlXZ == "http://x/z"
UrlOld == "http://old/a"
UrlOld2 == "http://old/b"
UrlOne == "http://one/a"

---------------------------------------------------------------------------
(* Link maps: Map<string, string | string[]> *)

Str(u) == [isArray |-> FALSE, items |-> <<u>>]
Arr(s) == [isArray |-> TRUE, items |-> s]
NoValue == [isArray |-> FALSE, items |-> <<>>]

EmptyMap == [n \in {} |-> NoValue]

MapSet(m, k, v) == [n \in (DOMAIN m) \cup {k} |-> IF n = k THEN v ELSE m[n]]

MapHas(m, k) == k \in DOMAIN m

MapSize(m) == Cardinality(DOMAIN m)

(* Files *)
AbsentFile == [state |-> "absent", timestamp |-> 0, links |-> EmptyMap]
CompleteFile(t, m) == [state |-> "complete", timestamp |-> t, links |-> m]
PartialFile == [state |-> "partial", timestamp |-> 0, links |-> EmptyMap]

\* what vavoo_cache.json may hold when the process starts
InitFiles ==
    { AbsentFile,
      CompleteFile(StartTime - CACHE_MAX_AGE,
                   MapSet(MapSet(EmptyMap, ChannelA, Arr(<<UrlOld2, UrlOld>>)),
                          ChannelB, Str(UrlOld))) }

\* loadVavooCache: a missing or unreadable file leaves the empty cache
loadVavooCache(f) ==
    IF f.state = "complete"
    THEN [timestamp |-> f.timestamp, links |-> f.links, updating |-> FALSE]
    ELSE [timestamp |-> 0, links |-> EmptyMap, updating |-> FALSE]

\* saveVavooCache: write the temporary file, then rename it over the cache file.
\* io is what the file system does: "ok", "writeFail" (mkdirSync or
\* writeFileSync throws) or "renameFail" (renameSync throws).
IoOutcomes == {"ok", "writeFail", "renameFail"}

\* a save that gives up when an earlier save left its temporary file behind
saveVavooCacheOnce(c, d, io) ==
    LET snap == CompleteFile(c.timestamp, c.links)
    IN  IF d.tmp.state # "absent" THEN d
        ELSE CASE io = "ok"         -> [file |-> snap, tmp |-> AbsentFile]
               [] io = "writeFail"  -> [file |-> d.file, tmp |-> PartialFile]
               [] io = "renameFail" -> [file |-> d.file, tmp |-> snap]

\* a save that writes the cache file in place
saveVavooCacheInPlace(c, d, io) ==
    LET snap == CompleteFile(c.timestamp, c.links)
    IN  CASE io = "ok"         -> [file |-> snap, tmp |-> AbsentFile]
          [] io = "writeFail"  -> [file |-> PartialFile, tmp |-> AbsentFile]
          [] io = "renameFail" -> [file |-> snap, tmp |-> AbsentFile]

saveVavooCache(c, d, io) ==
    LET snap == CompleteFile(c.timestamp, c.links)
    IN  CASE io = "ok"         -> [file |-> snap, tmp |-> AbsentFile]
          [] io = "writeFail"  -> [file |-> d.file, tmp |-> PartialFile]
          [] io = "renameFail" -> [file |-> d.file, tmp |-> snap]

---------------------------------------------------------------------------
(* The bulk dump: stdout of `vavoo_resolver.py --dump-channels` *)

Elem(n, u) == [isNull |-> FALSE, name |-> n, url |-> u]
NullElem == [isNull |-> TRUE, name |-> "", url |-> ""]

Stdout(k, s) == [kind |-> k, items |-> s]

\* kind: "empty" (no output), "garbage" (JSON.parse throws), "object" (JSON
\* that is no array: channels is not iterable), "array"
DumpStdouts ==
    { Stdout("empty", <<>>),
      Stdout("garbage", <<>>),
      Stdout("object", <<>>),
      Stdout("array", <<Elem(ChannelA, UrlXY), Elem(ChannelB, UrlXZ)>>),
      Stdout("array", <<Elem(ChannelA, UrlXZ), NullElem>>),
      Stdout("array", <<Elem("", UrlXY), Elem(ChannelA, ""), Elem(ChannelB, UrlXY)>>) }

\* what execFilePromise settles with: resolved with stdout, or rejected
\* (non-zero exit, or killed after the 30000 ms timeout)
ExecResults ==
    { [status |-> "ok", stdout |-> s] : s \in DumpStdouts }
    \cup { [status |-> "exit", stdout |-> Stdout("empty", <<>>)],
           [status |-> "timeout", stdout |-> Stdout("empty", <<>>)] }

\* lines 608-613: the loop filling the local updatedLinks; reading ch.name of
\* a null element throws
RECURSIVE FillLinks(_, _, _)
FillLinks(items, i, acc) ==
    IF i > Len(items) THEN [threw |-> FALSE, links |-> acc]
    ELSE IF items[i].isNull THEN [threw |-> TRUE, links |-> acc]
    ELSE IF items[i].name # "" /\ items[i].url # ""
         THEN FillLinks(items, i + 1, MapSet(acc, items[i].name, Str(items[i].url)))
         ELSE FillLinks(items, i + 1, acc)

ParsePartialPublish(old, ex) ==
    IF ex.status # "ok" \/ ex.stdout.kind # "array"
    THEN [ok |-> FALSE, links |-> old]
    ELSE LET b == FillLinks(ex.stdout.items, 1, EmptyMap)
         IN  [ok |-> ~b.threw, links |-> b.links]

\* lines 599-614: the outcome of the await and of the parse.  ok = the code
\* reaches line 614; links = what vavooCache.links is afterwards
ParseDump(old, ex) ==
    IF ex.status # "ok" THEN [ok |-> FALSE, links |-> old]
    ELSE IF ex.stdout.kind # "array" THEN [ok |-> FALSE, links |-> old]
    ELSE LET b == FillLinks(ex.stdout.items, 1, EmptyMap)
         IN  IF b.threw THEN [ok |-> FALSE, links |-> old]
             ELSE [ok |-> TRUE, links |-> b.links]

---------------------------------------------------------------------------
(* updateVavooCache, lines 589-631 *)

AlreadyUpdatingIgnored(c) == FALSE

\* line 590: the single-flight guard
AlreadyUpdating(c) == c.updating

updateVavooCacheEnterNoFlag(c, n) ==
    IF AlreadyUpdating(c)
    THEN [cache |-> c, inflight |-> n, ret |-> "false"]
    ELSE [cache |-> c, inflight |-> n + 1, ret |-> "pending"]

\* lines 590-602: from the call to the await.  n = subprocesses in flight.
\* ret "false": returned false at line 592; "pending": suspended at line 599
updateVavooCacheEnter(c, n) ==
    IF AlreadyUpdating(c)
    THEN [cache |-> c, inflight |-> n, ret |-> "false"]
    ELSE [cache |-> [c EXCEPT !.updating = TRUE], inflight |-> n + 1, ret |-> "pending"]

NotCalled(c, n) == [cache |-> c, inflight |-> n, ret |-> "none"]

RefreshTimestampEarly(c, p, t) == t

\* line 615, reached only after the parse and the loop succeeded
RefreshTimestamp(c, p, t) == IF p.ok THEN t ELSE c.timestamp

\* lines 618, 626, 630: the value the promise resolves with
RefreshReturn(p) == p.ok

\* a continuation that resets the flag only on the path that returns true
updateVavooCacheResumeNoFinally(c, d, t, ex, io) ==
    LET p  == ParseDump(c.links, ex)
        c1 == [timestamp |-> RefreshTimestamp(c, p, t),
               links     |-> p.links,
               updating  |-> c.updating]
    IN  [cache |-> [c1 EXCEPT !.updating = ~p.ok],
         disk  |-> IF p.ok THEN saveVavooCache(c1, d, io) ELSE d,
         ret   |-> RefreshReturn(p)]

\* lines 604-631: the continuation of the await, run to completion
updateVavooCacheResume(c, d, t, ex, io) ==
    LET p  == ParseDump(c.links, ex)
        c1 == [timestamp |-> RefreshTimestamp(c, p, t),
               links     |-> p.links,
               updating  |-> c.updating]
    IN  [cache |-> [c1 EXCEPT !.updating = FALSE],
         disk  |-> IF p.ok THEN saveVavooCache(c1, d, io) ELSE d,
         ret   |-> RefreshReturn(p)]

---------------------------------------------------------------------------
(* History of the refreshes *)

HasNullElem(items) == \E i \in 1..Len(items) : items[i].isNull

\* the failure a refresh meets, if any
FailureOf(ex, io) ==
    CASE ex.status # "ok"               -> ex.status
      [] ex.stdout.kind # "array"       -> ex.stdout.kind
      [] HasNullElem(ex.stdout.items)   -> "badElement"
      [] io # "ok"                      -> "io"
      [] OTHER                          -> "none"

ResolverFailures == {"exit", "timeout", "empty", "garbage", "object", "badElement"}

\* the map a dump describes: its entries with non-empty name and url, the last
\* entry of a name winning
FullMap(items) ==
    LET good == {i \in 1..Len(items) :
                    ~items[i].isNull /\ items[i].name # "" /\ items[i].url # ""}
        last(n) == CHOOSE i \in good :
                      /\ items[i].name = n
                      /\ \A j \in good : items[j].name = n => j <= i
    IN  [n \in {items[i].name : i \in good} |-> Str(items[last(n)].url)]

NoUpdate == [whileUpdating |-> FALSE, ret |-> "none", launched |-> 0, changed |-> FALSE]

UpdateRecord(c, n, u) ==
    [whileUpdating |-> c.updating, ret |-> u.ret,
     launched |-> u.inflight - n, changed |-> u.cache # c]

\* "resolver" for the failures of the resolver process and of its output
FailureClass(ex, io) ==
    IF FailureOf(ex, io) \in ResolverFailures THEN "resolver" ELSE FailureOf(ex, io)

NoRefresh ==
    [failure |-> "never", ret |-> FALSE, same |-> TRUE, partial |-> FALSE,
     flagAfter |-> FALSE]

NoResolve ==
    [event |-> "none", name |-> "", stale |-> FALSE, path |-> "none",
     raw |-> NoValue, sawWhole |-> TRUE, refreshing |-> FALSE,
     returned |-> FALSE, result |-> Null, prior |-> "none", linksSame |-> TRUE,
     out |-> "none"]

---------------------------------------------------------------------------
(* The clock.  Time moves from one instant at which a timer comes due or the
   cache may turn stale to the next: StartTime + k * 12 h and 2 s after it. *)

TickCount(t) ==
    2 * ((t - StartTime) \div VAVOO_UPDATE_INTERVAL)
      + (IF (t - StartTime) % VAVOO_UPDATE_INTERVAL = 0 THEN 0 ELSE 1)

NextInstant(t) ==
    IF (t - StartTime) % VAVOO_UPDATE_INTERVAL = 0
    THEN t + STARTUP_DELAY
    ELSE t - STARTUP_DELAY + VAVOO_UPDATE_INTERVAL

Tick ==
    /\ TickCount(now) < MaxTicks
    /\ now' = NextInstant(now)
    /\ lastResolve' = NoResolve /\ lastUpdate' = NoUpdate /\ lastRefresh' = NoRefresh
    /\ UNCHANGED <<vavooCache, disk, dumpsInFlight, startupPending, nextPeriodic,
                   nResolves, ioFailures, fallbacks, flight, wholeMap>>
    /\ UNCHANGED <<streamVars, decodeVars>>

---------------------------------------------------------------------------
(* Actions of the cache *)

\* a call of updateVavooCache() from a timer
TimerRefresh ==
    LET u == updateVavooCacheEnter(vavooCache, dumpsInFlight)
    IN  /\ vavooCache' = u.cache
        /\ dumpsInFlight' = u.inflight
        /\ lastUpdate' = UpdateRecord(vavooCache, dumpsInFlight, u)
        /\ flight' = [flight EXCEPT !.launches = @ + (u.inflight - dumpsInFlight)]
        /\ lastResolve' = NoResolve /\ lastRefresh' = NoRefresh
        /\ UNCHANGED <<now, disk, nResolves, ioFailures, fallbacks, wholeMap>>
    /\ UNCHANGED <<streamVars, decodeVars>>

\* lines 664-674: setTimeout(..., 2000)
StartupTimer ==
    /\ startupPending
    /\ now >= StartTime + STARTUP_DELAY
    /\ startupPending' = FALSE
    /\ UNCHANGED nextPeriodic
    /\ TimerRefresh

\* an interval timer that comes due every second interval
NextPeriodDoubled(due) == due + 2 * VAVOO_UPDATE_INTERVAL

\* setInterval, line 678: the timer comes due again one interval later
NextPeriod(due) == due + VAVOO_UPDATE_INTERVAL

\* lines 677-689: setInterval(..., VAVOO_UPDATE_INTERVAL)
PeriodicTimer ==
    /\ now >= nextPeriodic
    /\ nextPeriodic' = NextPeriod(nextPeriodic)
    /\ UNCHANGED startupPending
    /\ TimerRefresh

\* the await of line 599 settles and lines 604-631 run
RefreshComplete(ex, io) ==
    /\ dumpsInFlight > 0
    /\ (FailureOf(ex, "ok") # "none" => io = "ok")
    /\ (io # "ok" => ioFailures < MaxIoFailures)
    /\ ioFailures' = ioFailures + (IF io # "ok" THEN 1 ELSE 0)
    /\ LET r == updateVavooCacheResume(vavooCache, disk, now, ex, io)
       IN  /\ vavooCache' = r.cache
           /\ disk' = r.disk
           /\ lastRefresh' =
                [failure   |-> FailureClass(ex, io),
                 ret       |-> r.ret,
                 same      |-> /\ r.cache.links = vavooCache.links
                               /\ r.cache.timestamp = vavooCache.timestamp,
                 partial   |-> /\ FailureOf(ex, io) = "badElement"
                               /\ ~ex.stdout.items[1].isNull,
                 flagAfter |-> r.cache.updating]
    /\ dumpsInFlight' = dumpsInFlight - 1
    /\ wholeMap' = IF FailureOf(ex, "ok") = "none"
                   THEN FullMap(ex.stdout.items) ELSE wholeMap
    /\ flight' = IF dumpsInFlight = 1 THEN [callers |-> 0, launches |-> 0] ELSE flight
    /\ lastResolve' = NoResolve /\ lastUpdate' = NoUpdate
    /\ UNCHANGED <<now, startupPending, nextPeriodic, nResolves, fallbacks>>
    /\ UNCHANGED <<streamVars, decodeVars>>

---------------------------------------------------------------------------
(* resolveVavooChannelByName, lines 743-821 *)

\* a refresh asked for by every call
NeedsRefreshAlways(c, t) == TRUE

NeedsRefreshOnlyIfEmpty(c, t) == MapSize(c.links) = 0

\* lines 746-750: cache older than CACHE_MAX_AGE, or empty
NeedsRefresh(c, t) == (t - c.timestamp > CACHE_MAX_AGE) \/ MapSize(c.links) = 0

CachedUrlLast(raw) == IF raw.isArray THEN raw.items[Len(raw.items)] ELSE raw.items[1]

\* lines 760-766: a list gives its first element, a string itself
CachedUrl(raw) ==
    IF raw.isArray
    THEN (IF Len(raw.items) > 0 /\ raw.items[1] # "" THEN raw.items[1] ELSE Null)
    ELSE raw.items[1]

\* resolve(v) at lines 768, 780, 787, 804, 809, 818: a promise keeps the first
\* value it was resolved with.  prior = "none": not resolved yet
Settle(prior, v) == IF prior = "none" THEN v ELSE prior

\* stdout or error of `vavoo_resolver.py <name> --original-link`
SingleOutcomes == {"error", "empty", UrlOne}

NoFallbacks == [n \in ResolveNames |-> [waiting |-> 0, timedOut |-> 0]]

\* a miss that leaves the refresh to the timers
MissRefreshesNever(c) == FALSE

\* line 774: a name that is not in an initialised cache asks for a refresh
\* unless one is under way
MissRefreshes(c) == ~c.updating

\* lines 744-798: the promise executor, up to a resolve() or to the execFile call
resolveVavooChannelByName(name) ==
    /\ nResolves < MaxResolves
    /\ nResolves' = nResolves + 1
    /\ LET stale == NeedsRefresh(vavooCache, now)
           u1 == IF stale THEN updateVavooCacheEnter(vavooCache, dumpsInFlight)
                          ELSE NotCalled(vavooCache, dumpsInFlight)
           had == name # "" /\ MapHas(u1.cache.links, name)
           miss == ~had /\ u1.cache.timestamp > 0
           u2 == IF miss /\ MissRefreshes(u1.cache)
                 THEN updateVavooCacheEnter(u1.cache, u1.inflight)
                 ELSE NotCalled(u1.cache, u1.inflight)
           raw == IF had THEN u1.cache.links[name] ELSE NoValue
       IN  /\ vavooCache' = u2.cache
           /\ dumpsInFlight' = u2.inflight
           /\ lastResolve' =
                [event      |-> "call",
                 name       |-> name,
                 stale      |-> stale,
                 path       |-> IF had THEN "cached" ELSE IF miss THEN "miss" ELSE "fallback",
                 raw        |-> raw,
                 sawWhole   |-> u1.cache.links = wholeMap,
                 refreshing |-> u2.inflight > 0,
                 returned   |-> had \/ miss,
                 result     |-> IF had THEN Settle("none", CachedUrl(raw))
                                ELSE IF miss THEN Settle("none", Null) ELSE "none",
                 prior      |-> "none",
                 linksSame  |-> u2.cache.links = vavooCache.links,
                 out        |-> "none"]
           /\ fallbacks' = IF had \/ miss THEN fallbacks
                           ELSE [fallbacks EXCEPT ![name].waiting = @ + 1]
           /\ lastUpdate' = IF u2.ret # "none"
                            THEN UpdateRecord(u1.cache, u1.inflight, u2)
                            ELSE IF u1.ret # "none"
                            THEN UpdateRecord(vavooCache, dumpsInFlight, u1)
                            ELSE NoUpdate
           /\ flight' = [callers  |-> flight.callers + (IF stale THEN 1 ELSE 0),
                         launches |-> flight.launches + (u2.inflight - dumpsInFlight)]
    /\ lastRefresh' = NoRefresh
    /\ UNCHANGED <<now, disk, startupPending, nextPeriodic, ioFailures, wholeMap>>
    /\ UNCHANGED <<streamVars, decodeVars>>

\* a callback that checks error only
IsLinkUnlessError(out) == out # "error"

\* lines 801-810: an error (non-zero exit, kill after options.timeout) or an
\* stdout that is empty after trim() is no link
IsLink(out) == out \notin {"error", "empty"}

\* an insert that also marks the cache as populated
InsertLinkStamped(c, name, url) ==
    [c EXCEPT !.links = MapSet(@, name, Str(url)), !.timestamp = 1]

\* line 816: vavooCache.links.set(channelName, result)
InsertLink(c, name, url) == [c EXCEPT !.links = MapSet(@, name, Str(url))]

\* a call that waits without a timer
TimerNeverArmed(f) == FALSE

\* lines 785-788 and 799: every call that waits for its subprocess has set a
\* 5000 ms timer, which only its callback clears
TimerArmed(f) == f.waiting > 0

\* lines 785-788: the 5000 ms timer fires; the callback has not cleared it
FallbackTimeout(name) ==
    /\ TimerArmed(fallbacks[name])
    /\ fallbacks' = [fallbacks EXCEPT ![name].waiting = @ - 1,
                                      ![name].timedOut = @ + 1]
    /\ lastResolve' = [NoResolve EXCEPT !.event = "timeout", !.name = name,
                                        !.path = "fallback",
                                        !.refreshing = dumpsInFlight > 0,
                                        !.returned = TRUE,
                                        !.result = Settle("none", Null)]
    /\ lastUpdate' = NoUpdate /\ lastRefresh' = NoRefresh
    /\ UNCHANGED <<now, vavooCache, disk, dumpsInFlight, startupPending,
                   nextPeriodic, nResolves, ioFailures, flight, wholeMap>>
    /\ UNCHANGED <<streamVars, decodeVars>>

\* lines 798-819: the execFile callback of a call that is still waiting
\* (timedOut = FALSE) or that the timer already answered (timedOut = TRUE);
\* line 816 runs in both cases
FallbackCallback(name, timedOut, out) ==
    /\ IF timedOut THEN fallbacks[name].timedOut > 0 ELSE fallbacks[name].waiting > 0
    /\ LET gotUrl == IsLink(out)
           prior == IF timedOut THEN Null ELSE "none"
           cache1 == IF gotUrl THEN InsertLink(vavooCache, name, out) ELSE vavooCache
           links1 == cache1.links
       IN  /\ fallbacks' = IF timedOut
                           THEN [fallbacks EXCEPT ![name].timedOut = @ - 1]
                           ELSE [fallbacks EXCEPT ![name].waiting = @ - 1]
           /\ vavooCache' = cache1
           /\ wholeMap' = IF gotUrl THEN MapSet(wholeMap, name, Str(out)) ELSE wholeMap
           /\ lastResolve' = [NoResolve EXCEPT
                                 !.event = "callback", !.name = name,
                                 !.path = "fallback",
                                 !.refreshing = dumpsInFlight > 0,
                                 !.returned = ~timedOut,
                                 !.result = Settle(prior, IF gotUrl THEN out ELSE Null),
                                 !.prior = prior,
                                 !.linksSame = (links1 = vavooCache.links),
                                 !.out = out]
    /\ lastUpdate' = NoUpdate /\ lastRefresh' = NoRefresh
    /\ UNCHANGED <<now, disk, dumpsInFlight, startupPending, nextPeriodic,
                   nResolves, ioFailures, flight>>
    /\ UNCHANGED <<streamVars, decodeVars>>

---------------------------------------------------------------------------
(* Settings: process.env, configCache and the config of a request *)

Undefined == "undefined"

\* process.env: nothing set, or one of the provider flags set
NoEnv == [MFP_URL |-> Undefined, MFP_PSW |-> Undefined, TV_PROXY_URL |-> Undefined,
          ANIMEUNITY_ENABLED |-> Undefined, ANIMESATURN_ENABLED |-> Undefined]

Envs == {NoEnv,
         [NoEnv EXCEPT !.ANIMEUNITY_ENABLED = "true"],
         [NoEnv EXCEPT !.ANIMESATURN_ENABLED = "TRUE"]}

\* String.prototype.toLowerCase on the values a flag takes here
ToLowerCase(s) == IF s = "TRUE" THEN "true" ELSE s

\* lines 257-265
InitialConfig(e) ==
    [mediaFlowProxyUrl      |-> e.MFP_URL,
     mediaFlowProxyPassword |-> e.MFP_PSW,
     mfpProxyUrl            |-> e.MFP_URL,
     mfpProxyPassword       |-> e.MFP_PSW,
     tvProxyUrl             |-> e.TV_PROXY_URL,
     enableLiveTV           |-> "on"]

\* config.key: undefined when the object has no such key
Get(c, k) == IF k \in DOMAIN c THEN c[k] ELSE Undefined

\* an assignment in which the values of the target take precedence
ObjectAssignKeepsTarget(target, source) ==
    [k \in DOMAIN target \cup DOMAIN source |->
        IF k \in DOMAIN target THEN target[k] ELSE source[k]]

\* Object.assign(target, source), line 1135
ObjectAssign(target, source) ==
    [k \in DOMAIN target \cup DOMAIN source |->
        IF k \in DOMAIN source THEN source[k] ELSE target[k]]

EmptyConfig == [k \in {} |-> Undefined]

\* what parseConfigFromArgs makes of the config segments of the requests
ParsedConfigs ==
    {EmptyConfig,
     [animeunityEnabled |-> "on"],
     [animesaturnEnabled |-> "on"],
     [animeunityEnabled |-> "off", animesaturnEnabled |-> "off"]}

\* no Object.assign into configCache was made by the latest step
NoMerge == [merged |-> FALSE, partial |-> EmptyConfig, before |-> EmptyConfig]

\* a merge that puts the decoded settings in the place of the shared ones
MergedReplacing(cache, parsedConfig) ==
    IF DOMAIN parsedConfig # {} THEN parsedConfig ELSE cache

\* lines 1131-1137 and again 1149-1155: a config with keys is merged into the
\* shared configCache
Merged(cache, parsedConfig) ==
    IF DOMAIN parsedConfig # {}
    THEN ObjectAssign(ObjectAssign(cache, parsedConfig), parsedConfig)
    ELSE cache

---------------------------------------------------------------------------
(* Content ids.  An id is the sequence of its ':'-separated segments. *)

\* first segments that begin with "tt"
TTSegments == {"tt1"}

ContentIds == {<<"tt1">>, <<"tt1", "1", "2">>, <<"tmdb", "5">>,
               <<"kitsu", "7">>, <<"mal", "9">>, <<"xx1">>}

\* id.startsWith(p + ':')
StartsWithColon(id, p) == Len(id) > 1 /\ id[1] = p

\* id.startsWith('tt')
StartsWithTT(id) == id[1] \in TTSegments

IsAnimeIdKitsuOnly(id) == StartsWithColon(id, "kitsu")

\* lines 946 and 1931
IsAnimeId(id) == StartsWithColon(id, "kitsu") \/ StartsWithColon(id, "mal")
IsMovieSeriesId(id) == StartsWithTT(id) \/ StartsWithColon(id, "tmdb")

\* parseInt on a segment of decimal digits
ParseInt(s) == CASE s \in {"1", "01"} -> "1"
                 [] s \in {"2", "02"} -> "2"
                 [] s \in {"5", "05"} -> "5"
                 [] OTHER -> "NaN"

\* a parse that takes the second of two segments for the season
ParseSeasonEpisodeSeasonFirst(id) ==
    IF Len(id) = 1
    THEN [season |-> Null, episode |-> Null, isMovie |-> TRUE]
    ELSE IF Len(id) = 2
    THEN [season |-> ParseInt(id[2]), episode |-> Null, isMovie |-> FALSE]
    ELSE IF Len(id) = 3
    THEN [season |-> ParseInt(id[2]), episode |-> ParseInt(id[3]), isMovie |-> FALSE]
    ELSE [season |-> Null, episode |-> Null, isMovie |-> FALSE]

\* lines 1041-1052 (and 1856-1870): season, episode, isMovie from id.split(':')
ParseSeasonEpisode(id) ==
    IF Len(id) = 1
    THEN [season |-> Null, episode |-> Null, isMovie |-> TRUE]
    ELSE IF Len(id) = 2
    THEN [season |-> Null, episode |-> ParseInt(id[2]), isMovie |-> FALSE]
    ELSE IF Len(id) = 3
    THEN [season |-> ParseInt(id[2]), episode |-> ParseInt(id[3]), isMovie |-> FALSE]
    ELSE [season |-> Null, episode |-> Null, isMovie |-> FALSE]

NotParsed == [season |-> Null, episode |-> Null, isMovie |-> FALSE]

---------------------------------------------------------------------------
(* Live-TV ids of the primary-first handler, lines 920-939 *)

\* tvChannels (config/tv_channels.json): one channel with a static link, one without
TvChannels == {[id |-> <<"rai1">>, name |-> "Rai 1", staticUrl |-> "http://static/rai1"],
               [id |-> <<"rai2">>, name |-> "Rai 2", staticUrl |-> ""]}

\* ids whose text holds "%3A"
PercentIds == {<<"tv%3Arai1">>, <<"%74v%3Arai2">>, <<"%E0%A4%A%3Arai1">>}

TvIds == {<<"tv", "rai1">>, <<"tv", "rai2">>, <<"tv", "none">>, <<"rai1">>} \cup PercentIds

URIError == <<"URIError">>

\* decodeURIComponent: "%74" is "t", "%3A" is ":"; "%E0%A4%A" is no UTF-8 sequence
DecodeURIComponent(id) ==
    CASE id = <<"tv%3Arai1">> -> <<"tv", "rai1">>
      [] id = <<"%74v%3Arai2">> -> <<"tv", "rai2">>
      [] id = <<"%E0%A4%A%3Arai1">> -> URIError
      [] OTHER -> id

\* lines 921-931
CleanId(id) ==
    IF StartsWithColon(id, "tv") THEN Tail(id)
    ELSE IF id = <<"tv%3Arai1">> THEN <<"rai1">>
    ELSE IF id \in PercentIds
    THEN LET d == DecodeURIComponent(id)
         IN  IF d = URIError THEN URIError
             ELSE IF StartsWithColon(d, "tv") THEN Tail(d) ELSE d
    ELSE id

\* a stream object; the title of a provider's stream is the provider's own
Stream(name, url) == [name |-> name, title |-> Undefined, url |-> url]

\* line 936
TvStream(title, url) == [name |-> Undefined, title |-> title, url |-> url]

\* lines 932-938
TvStreams(cleanId) ==
    IF \E c \in TvChannels : c.id = cleanId
    THEN LET channel == CHOOSE c \in TvChannels : c.id = cleanId
         IN  IF channel.staticUrl # "" THEN <<TvStream(channel.name, channel.staticUrl)>>
             ELSE <<>>
    ELSE <<>>

---------------------------------------------------------------------------
(* Provider calls.  A call settles with a list, with nothing, or throws. *)

Outcome(kind, items) == [kind |-> kind, items |-> items]
NotAsked == Outcome("notAsked", <<>>)

\* await getStreamContent(id, type, finalConfig), line 1003: a rejection, null,
\* or a list of VixCloudStreamInfo, given here by their streamUrl
PrimaryOutcomes ==
    {Outcome("throw", <<>>), Outcome("null", <<>>), Outcome("list", <<>>),
     Outcome("list", <<Null>>), Outcome("list", <<"http://vix/1">>),
     Outcome("list", <<Null, "http://vix/1", "http://vix/2">>)}

\* await provider.handle...Request(...), lines 1059-1061: a rejection, a result
\* without streams, or a result with streams, given here by their url
SecondaryOutcomes ==
    {Outcome("throw", <<>>), Outcome("undefined", <<>>), Outcome("list", <<>>),
     Outcome("list", <<"http://anime/1">>),
     Outcome("list", <<"http://anime/1", "http://anime/2">>)}

RECURSIVE VixStreams(_, _)
\* lines 1004-1018: one stream per element with a streamUrl
VixStreams(items, i) ==
    IF i > Len(items) THEN <<>>
    ELSE IF items[i] = Null THEN VixStreams(items, i + 1)
    ELSE <<Stream("StreamViX Vx", items[i])>> \o VixStreams(items, i + 1)

\* lines 1005-1018: if (res) { for (const st of res) ... }
UsableStreams(res) == IF res.kind = "list" THEN VixStreams(res.items, 1) ELSE <<>>

\* lines 1063-1065: if (result && result.streams) push each with the provider's name
TaggedStreams(res, tag) ==
    IF res.kind = "list" THEN [i \in 1..Len(res.items) |-> Stream(tag, res.items[i])]
    ELSE <<>>

PrimarySufficesNever(vixStreams) == FALSE

\* line 1019
PrimarySuffices(vixStreams) == Len(vixStreams) > 0

\* line 943
AnimeUnityEnabled(config, e) ==
    Get(config, "animeunityEnabled") = "on" \/ ToLowerCase(e.ANIMEUNITY_ENABLED) = "true"

AnimeSaturnEnabledAsUnity(config, e) ==
    Get(config, "animeunityEnabled") = "on" \/ ToLowerCase(e.ANIMEUNITY_ENABLED) = "true"

\* line 944
AnimeSaturnEnabled(config, e) ==
    Get(config, "animesaturnEnabled") = "on" \/ ToLowerCase(e.ANIMESATURN_ENABLED) = "true"

---------------------------------------------------------------------------
(* The stream handler of one request.  req follows one request from the     *)
(* entry of its handler to its end; the other requests act on it through    *)
(* the configCache their Middleware step merges into.                       *)

NoRequest ==
    [rev |-> "none", id |-> <<"none">>, type |-> "none", pc |-> "idle",
     config |-> EmptyConfig, animeUnityEnabled |-> FALSE, animeSaturnEnabled |-> FALSE,
     allStreams |-> <<>>, calls |-> <<>>,
     got |-> [vix |-> NotAsked, au |-> NotAsked, as |-> NotAsked,
             vavoo |-> NotAsked],
     status |-> "none", result |-> <<>>]

\* the provider method an id goes to, lines 1058-1062 and 1876-1888; the
\* kitsu/mal branch of the primary-first handler uses handleKitsuRequest for both
Method(rev, id) ==
    IF StartsWithColon(id, "kitsu") THEN "handleKitsuRequest"
    ELSE IF StartsWithColon(id, "mal")
    THEN (IF rev = "alternate" THEN "handleMalRequest" ELSE "handleKitsuRequest")
    ELSE IF StartsWithTT(id) THEN "handleImdbRequest"
    ELSE "handleTmdbRequest"

\* the settings read from the shared store at the time of the call
ConfigInUseShared(r) == IF r.rev = "primaryFirst" THEN configCache ELSE r.config

\* line 941: config is a copy, { ...configCache }, made when the handler
\* starts; lines 998-1000 and 1026-1038 read the settings of a call from it
ConfigInUse(r) == r.config

\* the call a handler makes to a secondary provider
SecondaryCall(provider, r) ==
    LET p == IF IsMovieSeriesId(r.id) THEN ParseSeasonEpisode(r.id) ELSE NotParsed
    IN  [provider |-> provider,
         method   |-> Method(r.rev, r.id),
         arg      |-> IF StartsWithColon(r.id, "tmdb") THEN Tail(r.id) ELSE r.id,
         season   |-> p.season, episode |-> p.episode, isMovie |-> p.isMovie,
         settings |-> ConfigInUse(r)]

\* getStreamContent(id, type, finalConfig)
PrimaryCall(r) ==
    [provider |-> "vix", method |-> "getStreamContent", arg |-> r.id,
     season |-> Null, episode |-> Null, isMovie |-> FALSE,
     settings |-> ConfigInUse(r)]

Await(r, provider) ==
    [r EXCEPT !.pc = provider,
              !.calls = Append(@, IF provider = "vix" THEN PrimaryCall(r)
                                  ELSE SecondaryCall(provider, r))]

\* return { streams }
Return(r, streams) == [r EXCEPT !.pc = "done", !.status = "returned", !.result = streams]

\* an exception leaves the async handler: its promise is rejected
Reject(r) == [r EXCEPT !.pc = "done", !.status = "rejected"]

\* lines 965 and 977 (1054 and 1071; 1872 and 1900): AnimeUnity if enabled, then
\* AnimeSaturn if enabled
FirstSecondary(r) == IF r.animeUnityEnabled THEN Await(r, "au") ELSE Await(r, "as")

\* lines 920-1002 and 1094: the primary-first handler up to its first await
StartPrimaryFirst(r) ==
    IF r.type = "tv"
    THEN (IF CleanId(r.id) = URIError THEN Reject(r) ELSE Return(r, TvStreams(CleanId(r.id))))
    ELSE IF IsAnimeId(r.id) /\ (r.animeUnityEnabled \/ r.animeSaturnEnabled)
    THEN FirstSecondary(r)
    ELSE IF IsMovieSeriesId(r.id) THEN Await(r, "vix")
    ELSE Return(r, <<>>)

\* lines 1931-1948: every id but kitsu:, mal: and tv: goes to VixSrc
AlternateToVix(r) ==
    IF ~IsAnimeId(r.id) /\ ~StartsWithColon(r.id, "tv")
    THEN Await(r, "vix")
    ELSE Return(r, r.allStreams)

\* lines 1829-1870: the alternate handler, past its live-TV branch, up to its
\* first await
StartAlternate(r) ==
    IF (IsAnimeId(r.id) \/ IsMovieSeriesId(r.id))
          /\ (r.animeUnityEnabled \/ r.animeSaturnEnabled)
    THEN FirstSecondary(r)
    ELSE AlternateToVix(r)

\* lines 989-992 and 1088-1092; lines 1928-1931
AfterSecondaries(r) ==
    IF r.rev = "alternate" THEN AlternateToVix(r) ELSE Return(r, r.allStreams)

\* the await of getStreamContent settles: lines 1003-1023 and 1092; lines
\* 1948-1975, where a rejection is caught at line 1972
AfterPrimary(r, out) ==
    LET r1 == [r EXCEPT !.got.vix = out]
        vixStreams == UsableStreams(out)
    IN  IF r.rev = "alternate"
        THEN (IF out.kind = "throw" THEN Return(r1, <<>>)
              ELSE Return(r1, r.allStreams \o vixStreams))
        ELSE IF out.kind = "throw" THEN Reject(r1)
        ELSE IF PrimarySuffices(vixStreams) THEN Return(r1, vixStreams)
        ELSE IF r.animeUnityEnabled \/ r.animeSaturnEnabled THEN FirstSecondary(r1)
        ELSE Return(r1, <<>>)

\* the await of a secondary provider settles: a rejection is caught next to the
\* call (lines 1066, 1084), a result with streams is appended
AfterSecondary(r, out) ==
    IF r.pc = "au"
    THEN LET r1 == [r EXCEPT !.got.au = out,
                             !.allStreams = @ \o TaggedStreams(out, "StreamViX AU")]
         IN  IF r.animeSaturnEnabled THEN Await(r1, "as") ELSE AfterSecondaries(r1)
    ELSE AfterSecondaries([r EXCEPT !.got.as = out,
                                    !.allStreams = @ \o TaggedStreams(out, "StreamViX AS")])

\* a request with its id, type and settings, before the handler ran
NewRequest(rev, id, type, config) ==
    [NoRequest EXCEPT !.rev = rev, !.id = id, !.type = type, !.config = config,
                      !.animeUnityEnabled = AnimeUnityEnabled(config, env),
                      !.animeSaturnEnabled = AnimeSaturnEnabled(config, env),
                      !.status = "pending"]

ContentTypes == {"movie", "series"}

\* lines 1115-1157: the middleware of the primary-first revision merges the
\* config of any request into configCache
Middleware(parsedConfig) ==
    /\ configCache' = Merged(configCache, parsedConfig)
    /\ lastMerge' = IF DOMAIN parsedConfig # {}
                    THEN [merged |-> TRUE, partial |-> parsedConfig, before |-> configCache]
                    ELSE NoMerge
    /\ UNCHANGED <<env, req>>
    /\ UNCHANGED <<cacheVars, decodeVars>>

\* lines 917-1002: the stream handler is entered; config = { ...configCache }
StreamHandler(id, type) ==
    /\ req.status = "none"
    /\ req' = StartPrimaryFirst(NewRequest("primaryFirst", id, type, configCache))
    /\ lastMerge' = NoMerge
    /\ UNCHANGED <<env, configCache>>
    /\ UNCHANGED <<cacheVars, decodeVars>>

\* lines 1995-2004 and 1689-1870: the alternate revision builds a handler
\* around the config of the request itself
StreamHandlerAlternate(parsedConfig, id, type) ==
    /\ req.status = "none"
    /\ req' = StartAlternate(NewRequest("alternate", id, type, parsedConfig))
    /\ lastMerge' = NoMerge
    /\ UNCHANGED <<env, configCache>>
    /\ UNCHANGED <<cacheVars, decodeVars>>

PrimarySettles(out) ==
    /\ req.status = "pending" /\ req.pc = "vix"
    /\ req' = AfterPrimary(req, out)
    /\ lastMerge' = NoMerge
    /\ UNCHANGED <<env, configCache>>
    /\ UNCHANGED <<cacheVars, decodeVars>>

SecondarySettles(out) ==
    /\ req.status = "pending" /\ req.pc \in {"au", "as"}
    /\ req' = AfterSecondary(req, out)
    /\ lastMerge' = NoMerge
    /\ UNCHANGED <<env, configCache>>
    /\ UNCHANGED <<cacheVars, decodeVars>>

---------------------------------------------------------------------------
(* Text.  A string the decoder works on is the sequence of its characters. *)

\* stands for the character with the code 96
Backtick == "<backtick>"

\* the characters with the codes 32..126, in their order
Printable ==
    <<" ", "!", "\"", "#", "$", "%", "&", "'", "(", ")", "*", "+",
      ",", "-", ".", "/", "0", "1", "2", "3", "4", "5", "6", "7",
      "8", "9", ":", ";", "<", "=", ">", "?", "@", "A", "B", "C",
      "D", "E", "F", "G", "H", "I", "J", "K", "L", "M", "N", "O",
      "P", "Q", "R", "S", "T", "U", "V", "W", "X", "Y", "Z", "[",
      "\\", "]", "^", "_", Backtick, "a", "b", "c", "d", "e", "f", "g",
      "h", "i", "j", "k", "l", "m", "n", "o", "p", "q", "r", "s",
      "t", "u", "v", "w", "x", "y", "z", "{", "|", "}", "~">>

\* stand-ins for a control character and for a character beyond ASCII
CtrlChar == "<ctrl>"
HighChar == "<high>"
NewLine == "\n"

\* the character a byte below 128 stands for, and what toString('utf-8')
\* makes of a byte from 128 on
CharOfByte(b) ==
    IF b = 10 THEN NewLine
    ELSE IF b = 9 THEN "\t"
    ELSE IF b = 13 THEN "\r"
    ELSE IF b >= 32 /\ b <= 126 THEN Printable[b - 31]
    ELSE IF b < 128 THEN CtrlChar
    ELSE HighChar

Digits == {"0", "1", "2", "3", "4", "5", "6", "7", "8", "9"}
HexDigits == Digits \cup {"a", "b", "c", "d", "e", "f", "A", "B", "C", "D", "E", "F"}

HexValue(c) ==
    CASE c \in Digits -> (CHOOSE i \in 0..9 : Printable[i + 17] = c)
      [] c \in {"a", "A"} -> 10
      [] c \in {"b", "B"} -> 11
      [] c \in {"c", "C"} -> 12
      [] c \in {"d", "D"} -> 13
      [] c \in {"e", "E"} -> 14
      [] c \in {"f", "F"} -> 15

\* s.substring(i - 1, j) in the 1-based positions of a sequence
Slice(s, i, j) == SubSeq(s, i, IF j > Len(s) THEN Len(s) ELSE j)

\* s.startsWith(p)
StartsWith(s, p) == Len(s) >= Len(p) /\ SubSeq(s, 1, Len(p)) = p

\* s.includes(c) for a single character
Includes(s, c) == \E i \in 1..Len(s) : s[i] = c

---------------------------------------------------------------------------
(* decodeURIComponent, lines 436 *)

\* "%XY" at position i: its byte, or -1 when it is no escape
EscapeAt(s, i) ==
    IF i + 2 <= Len(s) /\ s[i] = "%" /\ s[i + 1] \in HexDigits /\ s[i + 2] \in HexDigits
    THEN 16 * HexValue(s[i + 1]) + HexValue(s[i + 2])
    ELSE -1

\* the continuation bytes a UTF-8 lead byte asks for; -1: no lead byte
Continuations(b) ==
    IF b >= 194 /\ b <= 223 THEN 1
    ELSE IF b >= 224 /\ b <= 239 THEN 2
    ELSE IF b >= 240 /\ b <= 244 THEN 3
    ELSE -1

RECURSIVE ContinuationsFollow(_, _, _)
\* n escapes with bytes 128..191 follow from position i on
ContinuationsFollow(s, i, n) ==
    IF n = 0 THEN TRUE
    ELSE /\ EscapeAt(s, i) >= 128 /\ EscapeAt(s, i) <= 191
         /\ ContinuationsFollow(s, i + 3, n - 1)

RECURSIVE DecodeFrom(_, _, _)
\* ok = FALSE: URIError
DecodeFrom(s, i, acc) ==
    IF i > Len(s) THEN [ok |-> TRUE, text |-> acc]
    ELSE IF s[i] # "%" THEN DecodeFrom(s, i + 1, Append(acc, s[i]))
    ELSE LET b == EscapeAt(s, i)
         IN  IF b < 0 THEN [ok |-> FALSE, text |-> <<>>]
             ELSE IF b < 128 THEN DecodeFrom(s, i + 3, Append(acc, CharOfByte(b)))
             ELSE IF Continuations(b) > 0 /\ ContinuationsFollow(s, i + 3, Continuations(b))
             THEN DecodeFrom(s, i + 3 + 3 * Continuations(b), Append(acc, HighChar))
             ELSE [ok |-> FALSE, text |-> <<>>]

\* a decoding that leaves the escapes in the text
decodeURIComponentKeepsEscapes(s) == [ok |-> TRUE, text |-> s]

decodeURIComponent(s) == DecodeFrom(s, 1, <<>>)

---------------------------------------------------------------------------
(* JSON.parse.  A value is [t, s, items]: t its type, s the text of a string
   or number, items the members of an object (key k, value v) or the elements
   of an array (value v). *)

JValue(t, s, items) == [t |-> t, s |-> s, items |-> items]
JNull == JValue("null", <<>>, <<>>)
JBool(b) == JValue("boolean", IF b THEN <<"t">> ELSE <<"f">>, <<>>)
JNumber(s) == JValue("number", s, <<>>)
JString(s) == JValue("string", s, <<>>)
JArray(items) == JValue("array", <<>>, items)
JObject(items) == JValue("object", <<>>, items)

\* SyntaxError
NoParse == [ok |-> FALSE, v |-> JNull, next |-> 0]
Parsed(v, next) == [ok |-> TRUE, v |-> v, next |-> next]

Whitespace == {" ", NewLine, "\t", "\r"}

RECURSIVE SkipWhitespace(_, _)
SkipWhitespace(s, i) ==
    IF i <= Len(s) /\ s[i] \in Whitespace THEN SkipWhitespace(s, i + 1) ELSE i

RECURSIVE SkipDigits(_, _)
SkipDigits(s, i) ==
    IF i <= Len(s) /\ s[i] \in Digits THEN SkipDigits(s, i + 1) ELSE i

\* the word w stands at position i
WordAt(s, i, w) == i + Len(w) - 1 <= Len(s) /\ SubSeq(s, i, i + Len(w) - 1) = w

\* number: -? (0 | [1-9][0-9]*) (. [0-9]+)? ([eE] [+-]? [0-9]+)?
ParseNumber(s, i) ==
    LET i1 == IF s[i] = "-" THEN i + 1 ELSE i
        i2 == IF i1 <= Len(s) /\ s[i1] = "0" THEN i1 + 1 ELSE SkipDigits(s, i1)
        hasFrac == i2 <= Len(s) /\ s[i2] = "."
        i3 == IF hasFrac THEN SkipDigits(s, i2 + 1) ELSE i2
        hasExp == i3 <= Len(s) /\ s[i3] \in {"e", "E"}
        i4 == IF hasExp /\ i3 + 1 <= Len(s) /\ s[i3 + 1] \in {"+", "-"}
              THEN i3 + 2 ELSE i3 + 1
        i5 == IF hasExp THEN SkipDigits(s, i4) ELSE i3
    IN  IF i2 = i1 \/ (hasFrac /\ i3 = i2 + 1) \/ (hasExp /\ i5 = i4)
        THEN NoParse
        ELSE Parsed(JNumber(SubSeq(s, i, i5 - 1)), i5)

\* the character an escape \c stands for; "" when there is no such escape
Escaped(c) ==
    CASE c \in {"\"", "\\", "/"} -> c
      [] c = "n" -> NewLine
      [] c = "t" -> "\t"
      [] c = "r" -> "\r"
      [] c \in {"b", "f"} -> CtrlChar
      [] OTHER -> ""

RECURSIVE StringBody(_, _, _)
\* the characters of a string from position i up to its closing quote
StringBody(s, i, acc) ==
    IF i > Len(s) THEN NoParse
    ELSE IF s[i] = "\"" THEN Parsed(JString(acc), i + 1)
    ELSE IF s[i] \in {CtrlChar, NewLine, "\t", "\r"} THEN NoParse
    ELSE IF s[i] # "\\" THEN StringBody(s, i + 1, Append(acc, s[i]))
    ELSE IF i + 1 > Len(s) THEN NoParse
    ELSE IF s[i + 1] = "u"
    THEN (IF i + 5 <= Len(s) /\ \A k \in 2..5 : s[i + k] \in HexDigits
          THEN LET code == 4096 * HexValue(s[i + 2]) + 256 * HexValue(s[i + 3])
                             + 16 * HexValue(s[i + 4]) + HexValue(s[i + 5])
               IN  StringBody(s, i + 6, Append(acc, CharOfByte(code)))
          ELSE NoParse)
    ELSE IF Escaped(s[i + 1]) = "" THEN NoParse
    ELSE StringBody(s, i + 2, Append(acc, Escaped(s[i + 1])))

RECURSIVE ParseValue(_, _)
RECURSIVE ParseMembers(_, _, _)
RECURSIVE ParseElements(_, _, _)

\* the value that starts at or after position i
ParseValue(s, i) ==
    LET j == SkipWhitespace(s, i)
    IN  IF j > Len(s) THEN NoParse
        ELSE IF s[j] = "\"" THEN StringBody(s, j + 1, <<>>)
        ELSE IF s[j] = "-" \/ s[j] \in Digits THEN ParseNumber(s, j)
        ELSE IF WordAt(s, j, <<"t", "r", "u", "e">>) THEN Parsed(JBool(TRUE), j + 4)
        ELSE IF WordAt(s, j, <<"f", "a", "l", "s", "e">>) THEN Parsed(JBool(FALSE), j + 5)
        ELSE IF WordAt(s, j, <<"n", "u", "l", "l">>) THEN Parsed(JNull, j + 4)
        ELSE IF s[j] = "{"
        THEN LET k == SkipWhitespace(s, j + 1)
             IN  IF k <= Len(s) /\ s[k] = "}" THEN Parsed(JObject(<<>>), k + 1)
                 ELSE ParseMembers(s, k, <<>>)
        ELSE IF s[j] = "["
        THEN LET k == SkipWhitespace(s, j + 1)
             IN  IF k <= Len(s) /\ s[k] = "]" THEN Parsed(JArray(<<>>), k + 1)
                 ELSE ParseElements(s, k, <<>>)
        ELSE NoParse

\* "key": value, then "," and the next member or "}"
ParseMembers(s, i, acc) ==
    LET j == SkipWhitespace(s, i)
    IN  IF j > Len(s) \/ s[j] # "\"" THEN NoParse
        ELSE LET key == StringBody(s, j + 1, <<>>)
                 c == IF key.ok THEN SkipWhitespace(s, key.next) ELSE 0
             IN  IF ~key.ok \/ c > Len(s) \/ s[c] # ":" THEN NoParse
                 ELSE LET val == ParseValue(s, c + 1)
                          e == IF val.ok THEN SkipWhitespace(s, val.next) ELSE 0
                          items == Append(acc, [k |-> key.v.s, v |-> val.v])
                      IN  IF ~val.ok \/ e > Len(s) THEN NoParse
                          ELSE IF s[e] = "}" THEN Parsed(JObject(items), e + 1)
                          ELSE IF s[e] = "," THEN ParseMembers(s, e + 1, items)
                          ELSE NoParse

\* value, then "," and the next element or "]"
ParseElements(s, i, acc) ==
    LET val == ParseValue(s, i)
        e == IF val.ok THEN SkipWhitespace(s, val.next) ELSE 0
        items == Append(acc, [k |-> <<>>, v |-> val.v])
    IN  IF ~val.ok \/ e > Len(s) THEN NoParse
        ELSE IF s[e] = "]" THEN Parsed(JArray(items), e + 1)
        ELSE IF s[e] = "," THEN ParseElements(s, e + 1, items)
        ELSE NoParse

\* JSON.parse(text): ok = FALSE when it throws a SyntaxError
JSONParse(s) ==
    LET r == ParseValue(s, 1)
    IN  IF r.ok /\ SkipWhitespace(s, r.next) > Len(s)
        THEN [ok |-> TRUE, v |-> r.v]
        ELSE [ok |-> FALSE, v |-> JNull]

---------------------------------------------------------------------------
(* Buffer.from(text, 'base64').toString('utf-8'), line 467 *)

Base64Alphabet ==
    <<"A", "B", "C", "D", "E", "F", "G", "H", "I", "J", "K", "L", "M",
      "N", "O", "P", "Q", "R", "S", "T", "U", "V", "W", "X", "Y", "Z",
      "a", "b", "c", "d", "e", "f", "g", "h", "i", "j", "k", "l", "m",
      "n", "o", "p", "q", "r", "s", "t", "u", "v", "w", "x", "y", "z",
      "0", "1", "2", "3", "4", "5", "6", "7", "8", "9", "+", "/">>

\* the six bits of a character; -1 for a character the decoder passes over
Base64Value(c) ==
    IF \E i \in 1..64 : Base64Alphabet[i] = c
    THEN (CHOOSE i \in 1..64 : Base64Alphabet[i] = c) - 1
    ELSE IF c = "-" THEN 62
    ELSE IF c = "_" THEN 63
    ELSE -1

RECURSIVE Sextets(_, _, _)
\* the decoder stops at the first "=" and passes over any other character
\* that is not of the alphabet
Sextets(s, i, acc) ==
    IF i > Len(s) \/ s[i] = "=" THEN acc
    ELSE IF Base64Value(s[i]) < 0 THEN Sextets(s, i + 1, acc)
    ELSE Sextets(s, i + 1, Append(acc, Base64Value(s[i])))

RECURSIVE BytesOfSextets(_, _)
\* four characters give three bytes; three left over give two, two give one
BytesOfSextets(x, i) ==
    LET left == Len(x) - i + 1
        b1 == 4 * x[i] + (x[i + 1] \div 16)
        b2 == 16 * (x[i + 1] % 16) + (x[i + 2] \div 4)
        b3 == 64 * (x[i + 2] % 4) + x[i + 3]
    IN  IF left < 2 THEN <<>>
        ELSE IF left = 2 THEN <<b1>>
        ELSE IF left = 3 THEN <<b1, b2>>
        ELSE <<b1, b2, b3>> \o BytesOfSextets(x, i + 4)

BufferFromBase64(s) == BytesOfSextets(Sextets(s, 1, <<>>), 1)

\* buffer.toString('utf-8')
ToUtf8String(bytes) == [i \in 1..Len(bytes) |-> CharOfByte(bytes[i])]

---------------------------------------------------------------------------
(* parseConfigFromArgs, lines 405-501 *)

EmptySettings == JObject(<<>>)

\* what the function returns, and the stage that produced it
Decoded(stage, value) == [stage |-> stage, value |-> value]

\* /^[A-Za-z0-9+\/=]+$/.test(s), line 453
LooksBase64(s) ==
    /\ Len(s) > 0
    /\ \A i \in 1..Len(s) :
          s[i] = "=" \/ \E k \in 1..64 : Base64Alphabet[k] = s[i]

RECURSIVE ReplaceEscapedEquals(_, _)
\* s.replace(/%3D/g, '='), line 457
ReplaceEscapedEquals(s, i) ==
    IF i > Len(s) THEN <<>>
    ELSE IF WordAt(s, i, <<"%", "3", "D">>) THEN <<"=">> \o ReplaceEscapedEquals(s, i + 3)
    ELSE <<s[i]>> \o ReplaceEscapedEquals(s, i + 1)

RECURSIVE StripTrailingEquals(_)
\* s.replace(/=+$/, ''), line 458
StripTrailingEquals(s) ==
    IF Len(s) > 0 /\ s[Len(s)] = "=" THEN StripTrailingEquals(SubSeq(s, 1, Len(s) - 1))
    ELSE s

RECURSIVE Padded(_)
\* lines 461-464
Padded(s) == IF Len(s) % 4 # 0 THEN Padded(Append(s, "=")) ELSE s

\* the end of the line that position p lies on: "." matches no line break
LineEnd(s, p) ==
    IF \E i \in p..Len(s) : s[i] \in {NewLine, "\r"}
    THEN (CHOOSE i \in p..Len(s) :
             /\ s[i] \in {NewLine, "\r"}
             /\ \A j \in p..(i - 1) : s[j] \notin {NewLine, "\r"}) - 1
    ELSE Len(s)

\* decoded.match(/({.*})/), line 479: from the first "{" that has a "}" after
\* it on its line, up to the last "}" of that line; <<>> when nothing matches
BraceMatch(s) ==
    LET Closes(p) == {q \in (p + 1)..LineEnd(s, p) : s[q] = "}"}
        starts == {p \in 1..Len(s) : s[p] = "{" /\ Closes(p) # {}}
    IN  IF starts = {} THEN <<>>
        ELSE LET p == CHOOSE x \in starts : \A y \in starts : x <= y
                 q == CHOOSE x \in Closes(p) : \A y \in Closes(p) : y <= x
             IN  SubSeq(s, p, q)

\* lines 478-489: the text between braces, parsed
ExtractStage(decoded) ==
    LET jsonMatch == BraceMatch(decoded)
        parsed == JSONParse(jsonMatch)
    IN  IF jsonMatch # <<>> /\ parsed.ok THEN Decoded("extract", parsed.v)
        ELSE Decoded("none", EmptySettings)

\* a base64 stage that looks for the text between braces first
Base64StageExtractFirst(decodedArgs) ==
    IF StartsWith(decodedArgs, <<"e", "y", "J">>) \/ LooksBase64(decodedArgs)
    THEN LET base64Fixed == StripTrailingEquals(ReplaceEscapedEquals(decodedArgs, 1))
             decoded == ToUtf8String(BufferFromBase64(Padded(base64Fixed)))
             parsed == JSONParse(decoded)
         IN  IF Includes(decoded, "{") /\ Includes(decoded, "}")
             THEN (IF ExtractStage(decoded).stage = "extract" THEN ExtractStage(decoded)
                   ELSE IF parsed.ok THEN Decoded("base64", parsed.v)
                   ELSE Decoded("none", EmptySettings))
             ELSE Decoded("none", EmptySettings)
    ELSE Decoded("none", EmptySettings)

\* lines 453-495
Base64Stage(decodedArgs) ==
    IF StartsWith(decodedArgs, <<"e", "y", "J">>) \/ LooksBase64(decodedArgs)
    THEN LET base64Fixed == StripTrailingEquals(ReplaceEscapedEquals(decodedArgs, 1))
             decoded == ToUtf8String(BufferFromBase64(Padded(base64Fixed)))
             parsed == JSONParse(decoded)
         IN  IF Includes(decoded, "{") /\ Includes(decoded, "}")
             THEN (IF parsed.ok THEN Decoded("base64", parsed.v) ELSE ExtractStage(decoded))
             ELSE Decoded("none", EmptySettings)
    ELSE Decoded("none", EmptySettings)

\* lines 433-450 and on: the percent-decoded text is parsed; when it does not
\* parse, it is what the base64 stage works on
PercentStage(args) ==
    LET pct == decodeURIComponent(args)
        usable == Includes(args, "%") /\ pct.ok
        decodedArgs == IF usable THEN pct.text ELSE args
        parsed == JSONParse(decodedArgs)
    IN  IF usable /\ parsed.ok THEN Decoded("percent", parsed.v)
        ELSE Base64Stage(decodedArgs)

\* lines 405-501, for a string args
parseConfigFromArgs(args) ==
    IF args = <<>> \/ args = <<"u", "n", "d", "e", "f", "i", "n", "e", "d">> \/ args = <<"n", "u", "l", "l">>
    THEN Decoded("none", EmptySettings)
    ELSE LET parsed == JSONParse(args)
         IN  IF parsed.ok THEN Decoded("direct", parsed.v)
             ELSE PercentStage(args)

---------------------------------------------------------------------------
(* Config segments.  The texts below are the settings a client may send; a
   client sends one as it is, percent-encoded, or in base64 with or without
   its padding. *)

\* {"tmdbApiKey":"X"}
SettingsTmdb ==
    <<"{", "\"", "t", "m", "d", "b", "A", "p", "i", "K", "e", "y", "\"",
      ":", "\"", "X", "\"", "}">>

\* {"animeunityEnabled":"on"}
SettingsFlags ==
    <<"{", "\"", "a", "n", "i", "m", "e", "u", "n", "i", "t", "y", "E",
      "n", "a", "b", "l", "e", "d", "\"", ":", "\"", "o", "n", "\"", "}">>

\* {"mfpProxyUrl":"http://p:8"}
SettingsProxy ==
    <<"{", "\"", "m", "f", "p", "P", "r", "o", "x", "y", "U", "r", "l",
      "\"", ":", "\"", "h", "t", "t", "p", ":", "/", "/", "p", ":", "8",
      "\"", "}">>

\* {}
SettingsNone ==
    <<"{", "}">>

\* {"ab":"c"}
SettingsShort ==
    <<"{", "\"", "a", "b", "\"", ":", "\"", "c", "\"", "}">>

\* {"n":1,"live":true}
SettingsMixed ==
    <<"{", "\"", "n", "\"", ":", "1", ",", "\"", "l", "i", "v", "e", "\"",
      ":", "t", "r", "u", "e", "}">>

\* { "bothLinks" : "on" }
SettingsSpaced ==
    <<"{", " ", "\"", "b", "o", "t", "h", "L", "i", "n", "k", "s", "\"",
      " ", ":", " ", "\"", "o", "n", "\"", " ", "}">>

SettingsTexts ==
    {SettingsTmdb, SettingsFlags, SettingsProxy, SettingsNone,
     SettingsShort, SettingsMixed, SettingsSpaced}

\* the code of a character
ByteOfChar(c) == (CHOOSE i \in 1..95 : Printable[i] = c) + 31

HexChars == <<"0", "1", "2", "3", "4", "5", "6", "7", "8", "9", "A", "B", "C", "D", "E", "F">>

Unreserved ==
    {Printable[i] : i \in (17..26) \cup (34..59) \cup (66..91)}
        \cup {"-", "_", ".", "!", "~", "*", "'", "(", ")"}

RECURSIVE EncodeFrom(_, _)
EncodeFrom(s, i) ==
    IF i > Len(s) THEN <<>>
    ELSE IF s[i] \in Unreserved THEN <<s[i]>> \o EncodeFrom(s, i + 1)
    ELSE <<"%", HexChars[(ByteOfChar(s[i]) \div 16) + 1], HexChars[(ByteOfChar(s[i]) % 16) + 1]>>
            \o EncodeFrom(s, i + 1)

\* encodeURIComponent(text)
encodeURIComponent(s) == EncodeFrom(s, 1)

RECURSIVE Base64From(_, _)
Base64From(b, i) ==
    LET left == Len(b) - i + 1
        c1 == Base64Alphabet[(b[i] \div 4) + 1]
        c2(n) == Base64Alphabet[16 * (b[i] % 4) + (n \div 16) + 1]
        c3(m, n) == Base64Alphabet[4 * (m % 16) + (n \div 64) + 1]
        c4 == Base64Alphabet[(b[i + 2] % 64) + 1]
    IN  IF left <= 0 THEN <<>>
        ELSE IF left = 1 THEN <<c1, c2(0), "=", "=">>
        ELSE IF left = 2 THEN <<c1, c2(b[i + 1]), c3(b[i + 1], 0), "=">>
        ELSE <<c1, c2(b[i + 1]), c3(b[i + 1], b[i + 2]), c4>> \o Base64From(b, i + 3)

\* Buffer.from(text).toString('base64') / btoa(text)
Base64Encode(s) == Base64From([i \in 1..Len(s) |-> ByteOfChar(s[i])], 1)

\* the encodings of a text that a client may put into the path
Encodings(s) ==
    {s, encodeURIComponent(s), Base64Encode(s),
     StripTrailingEquals(Base64Encode(s)),
     encodeURIComponent(Base64Encode(s))}

\* every segment that carries settings
SettingsSegments == UNION {Encodings(s) : s \in SettingsTexts}

\* segments that carry no settings: cut off, wrongly quoted, wrongly escaped,
\* or the JSON text of something that is no object
\*    (the empty segment)
Junk01 ==
    <<>>
\* undefined
Junk02 ==
    <<"u", "n", "d", "e", "f", "i", "n", "e", "d">>
\* null
Junk03 ==
    <<"n", "u", "l", "l">>
\* garbage!!
Junk04 ==
    <<"g", "a", "r", "b", "a", "g", "e", "!", "!">>
\* abcdefghijkl
Junk05 ==
    <<"a", "b", "c", "d", "e", "f", "g", "h", "i", "j", "k", "l">>
\* stream
Junk06 ==
    <<"s", "t", "r", "e", "a", "m">>
\* manifest.json
Junk07 ==
    <<"m", "a", "n", "i", "f", "e", "s", "t", ".", "j", "s", "o", "n">>
\* ====
Junk08 ==
    <<"=", "=", "=", "=">>
\* eyJ
Junk09 ==
    <<"e", "y", "J">>
\* {"a":   (cut off)
Junk10 ==
    <<"{", "\"", "a", "\"", ":">>
\* {"a":"b"
Junk11 ==
    <<"{", "\"", "a", "\"", ":", "\"", "b", "\"">>
\* {a:1}
Junk12 ==
    <<"{", "a", ":", "1", "}">>
\* {'a':'b'}
Junk13 ==
    <<"{", "'", "a", "'", ":", "'", "b", "'", "}">>
\* {}x
Junk14 ==
    <<"{", "}", "x">>
\* %7B%22a%22
Junk15 ==
    <<"%", "7", "B", "%", "2", "2", "a", "%", "2", "2">>
\* %E0%A4%A   (no UTF-8 sequence)
Junk16 ==
    <<"%", "E", "0", "%", "A", "4", "%", "A">>
\* %zz
Junk17 ==
    <<"%", "z", "z">>
\* eyJhIjo=   (base64 of {"a":)
Junk18 ==
    <<"e", "y", "J", "h", "I", "j", "o", "=">>
\* e2F9   (base64 of {a})
Junk19 ==
    <<"e", "2", "F", "9">>
\* 12345
Junk20 ==
    <<"1", "2", "3", "4", "5">>
\* true
Junk21 ==
    <<"t", "r", "u", "e">>
\* "abc"
Junk22 ==
    <<"\"", "a", "b", "c", "\"">>
\* %22abc%22
Junk23 ==
    <<"%", "2", "2", "a", "b", "c", "%", "2", "2">>
\* [1,2]
Junk24 ==
    <<"[", "1", ",", "2", "]">>
\* %5B1%5D
Junk25 ==
    <<"%", "5", "B", "1", "%", "5", "D">>
\* %20null
Junk26 ==
    <<"%", "2", "0", "n", "u", "l", "l">>
\* %6E%75%6C%6C   (null, percent-encoded)
Junk27 ==
    <<"%", "6", "E", "%", "7", "5", "%", "6", "C", "%", "6", "C">>
\* W3siYSI6ImIifV0=   (base64 of [{"a":"b"}])
Junk28 ==
    <<"W", "3", "s", "i", "Y", "S", "I", "6", "I", "m", "I", "i", "f", "V",
      "0", "=">>
\* Int9Ig==   (base64 of "{}")
Junk29 ==
    <<"I", "n", "t", "9", "I", "g", "=", "=">>

MalformedSegments ==
    {Junk01, Junk02, Junk03, Junk04, Junk05, Junk06, Junk07, Junk08,
     Junk09, Junk10, Junk11, Junk12, Junk13, Junk14, Junk15, Junk16,
     Junk17, Junk18, Junk19, Junk20, Junk21, Junk22, Junk23, Junk24,
     Junk25, Junk26, Junk27, Junk28, Junk29}

\* base64 of a text that holds the settings between other characters
\* base64 of cfg={"tmdbApiKey":"X"};
Wrapped01 ==
    <<"Y", "2", "Z", "n", "P", "X", "s", "i", "d", "G", "1", "k", "Y", "k",
      "F", "w", "a", "U", "t", "l", "e", "S", "I", "6", "I", "l", "g", "i",
      "f", "T", "s", "=">>
\* eyJhIjoiYiJ9ew==   (base64 of {"a":"b"}{)
Wrapped02 ==
    <<"e", "y", "J", "h", "I", "j", "o", "i", "Y", "i", "J", "9", "e", "w",
      "=", "=">>

ConfigStrings == SettingsSegments \cup MalformedSegments \cup {Wrapped01, Wrapped02}

\* before parseConfigFromArgs ran
NotDecoded == Decoded("pending", JNull)

\* parseConfigFromArgs(configString), line 1132
ParseConfig ==
    /\ decodeResult = NotDecoded
    /\ decodeResult' = parseConfigFromArgs(configString)
    /\ UNCHANGED <<configString, handled>>
    /\ UNCHANGED <<cacheVars, streamVars>>

\* the middleware had no request yet
NotHandled == [ran |-> FALSE, passed |-> FALSE, raised |-> FALSE]

\* a test that leaves the length out
IsConfigSegmentOfAnyLength(cs) ==
    /\ cs # <<>>
    /\ ~StartsWith(cs, <<"s", "t", "r", "e", "a", "m">>)
    /\ ~StartsWith(cs, <<"m", "e", "t", "a">>)
    /\ ~StartsWith(cs, <<"m", "a", "n", "i", "f", "e", "s", "t">>)

\* lines 1131 and 1149: configString && configString.length > 10 &&
\* !configString.startsWith('stream') && ... 'meta' ... 'manifest'
IsConfigSegment(cs) ==
    /\ cs # <<>> /\ Len(cs) > 10
    /\ ~StartsWith(cs, <<"s", "t", "r", "e", "a", "m">>)
    /\ ~StartsWith(cs, <<"m", "e", "t", "a">>)
    /\ ~StartsWith(cs, <<"m", "a", "n", "i", "f", "e", "s", "t">>)

RECURSIVE Text(_)
\* the string of a sequence of characters
Text(cs) == IF cs = <<>> THEN "" ELSE cs[1] \o Text(Tail(cs))

\* Object.keys(v), line 1133: the keys of an object, the indices of an array
\* or of a string, nothing for a number or a boolean; null has no keys to
\* give and a TypeError is thrown
ObjectKeys(v) ==
    CASE v.t = "object" -> {Text(v.items[i].k) : i \in 1..Len(v.items)}
      [] v.t = "array"  -> {ToString(i - 1) : i \in 1..Len(v.items)}
      [] v.t = "string" -> {ToString(i - 1) : i \in 1..Len(v.s)}
      [] OTHER          -> {}

\* a parsed value as the settings it writes: strings as they are, numbers
\* and booleans by their text, anything nested by its type
SettingOf(v) ==
    CASE v.t \in {"string", "number"} -> Text(v.s)
      [] v.t = "boolean" -> (IF v.s = <<"t">> THEN "true" ELSE "false")
      [] OTHER -> v.t

\* the own properties Object.assign copies from a parsed value, line 1135;
\* of two members with one key JSON.parse keeps the later
AsConfig(v) ==
    [k \in ObjectKeys(v) |->
        CASE v.t = "object" ->
               LET last == CHOOSE i \in 1..Len(v.items) :
                              /\ Text(v.items[i].k) = k
                              /\ \A j \in 1..Len(v.items) :
                                    Text(v.items[j].k) = k => j <= i
               IN  SettingOf(v.items[last].v)
          [] v.t = "array" ->
               SettingOf(v.items[CHOOSE i \in 1..Len(v.items) : ToString(i - 1) = k].v)
          [] OTHER ->
               v.s[CHOOSE i \in 1..Len(v.s) : ToString(i - 1) = k]]

\* lines 1115-1156: the middleware on the first path segment of a request
ConfigMiddleware ==
    /\ ~handled.ran
    /\ decodeResult' = IF IsConfigSegment(configString)
                       THEN parseConfigFromArgs(configString)
                       ELSE NotDecoded
    /\ handled' = [ran    |-> TRUE,
                   passed |-> IsConfigSegment(configString),
                   raised |-> /\ IsConfigSegment(configString)
                              /\ decodeResult'.value.t = "null"]
    /\ lastMerge' = IF /\ handled'.passed /\ ~handled'.raised
                       /\ ObjectKeys(decodeResult'.value) # {}
                    THEN [merged  |-> TRUE,
                          partial |-> AsConfig(decodeResult'.value),
                          before  |-> configCache]
                    ELSE NoMerge
    /\ configCache' = IF lastMerge'.merged
                      THEN Merged(configCache, lastMerge'.partial)
                      ELSE configCache
    /\ UNCHANGED <<configString, env, req>>
    /\ UNCHANGED cacheVars

---------------------------------------------------------------------------
(* The cache on its own *)

InitCache ==
    /\ now = StartTime
    /\ \E f \in InitFiles :
          /\ disk = [file |-> f, tmp |-> AbsentFile]
          /\ vavooCache = loadVavooCache(f)
          /\ wholeMap = loadVavooCache(f).links
    /\ dumpsInFlight = 0
    /\ startupPending = TRUE
    /\ nextPeriodic = StartTime + VAVOO_UPDATE_INTERVAL
    /\ nResolves = 0
    /\ ioFailures = 0
    /\ fallbacks = NoFallbacks
    /\ lastResolve = NoResolve
    /\ lastUpdate = NoUpdate
    /\ lastRefresh = NoRefresh
    /\ flight = [callers |-> 0, launches |-> 0]
    /\ env = NoEnv
    /\ configCache = InitialConfig(NoEnv)
    /\ req = NoRequest
    /\ lastMerge = NoMerge
    /\ configString = <<>>
    /\ decodeResult = NotDecoded
    /\ handled = NotHandled

NextCache ==
    \/ Tick
    \/ StartupTimer
    \/ PeriodicTimer
    \/ \E ex \in ExecResults, io \in IoOutcomes : RefreshComplete(ex, io)
    \/ \E name \in ResolveNames : resolveVavooChannelByName(name)
    \/ \E name \in ResolveNames : FallbackTimeout(name)
    \/ \E name \in ResolveNames, timedOut \in BOOLEAN, out \in SingleOutcomes :
          FallbackCallback(name, timedOut, out)

SpecCache == InitCache /\ [][NextCache]_vars

\* line 600: execFilePromise is given timeout: 30000, so a dump that prints
\* nothing is killed and the await of line 599 is rejected
DumpTimedOut == [status |-> "timeout", stdout |-> Stdout("empty", <<>>)]

\* the timers of the runtime fire: the 5000 ms timer of each waiting call
\* (line 785) and the 30000 ms limit of each dump (line 600)
TimersFire ==
    /\ \A name \in ResolveNames : WF_vars(FallbackTimeout(name))
    /\ WF_vars(RefreshComplete(DumpTimedOut, "ok"))

\* the calls and their subprocesses within one instant of the clock: the 5 s
\* and the 30 s limits are short against the 12 hours between two instants
NextTimers ==
    \/ \E ex \in ExecResults, io \in IoOutcomes : RefreshComplete(ex, io)
    \/ \E name \in ResolveNames : resolveVavooChannelByName(name)
    \/ \E name \in ResolveNames : FallbackTimeout(name)
    \/ \E name \in ResolveNames, timedOut \in BOOLEAN, out \in SingleOutcomes :
          FallbackCallback(name, timedOut, out)

SpecCacheTimers == InitCache /\ [][NextTimers]_vars /\ TimersFire

\* a timer of lines 664 and 678 is due at the present instant
TimerDue == (startupPending /\ now >= StartTime + STARTUP_DELAY) \/ now >= nextPeriodic

\* the clock of a process whose event loop is free: time gets to the next
\* instant once the timers due at the present one have run
ClockTick ==
    /\ TickCount(now) < MaxClockTicks
    /\ ~TimerDue
    /\ now' = NextInstant(now)
    /\ lastResolve' = NoResolve /\ lastUpdate' = NoUpdate /\ lastRefresh' = NoRefresh
    /\ UNCHANGED <<vavooCache, disk, dumpsInFlight, startupPending, nextPeriodic,
                   nResolves, ioFailures, fallbacks, flight, wholeMap>>
    /\ UNCHANGED <<streamVars, decodeVars>>

\* the timers of the startup block and the refreshes they start
NextClock ==
    \/ ClockTick
    \/ StartupTimer
    \/ PeriodicTimer
    \/ \E ex \in ExecResults, io \in IoOutcomes : RefreshComplete(ex, io)

\* time passes, the due timers run, a dump ends by its 30000 ms limit
ClockRuns ==
    /\ WF_vars(ClockTick)
    /\ WF_vars(StartupTimer)
    /\ WF_vars(PeriodicTimer)
    /\ WF_vars(RefreshComplete(DumpTimedOut, "ok"))

SpecCacheClock == InitCache /\ [][NextClock]_vars /\ ClockRuns

---------------------------------------------------------------------------
(* The stream handlers on their own *)

\* the requests a handler is entered with
MainRequests == (ContentIds \X ContentTypes) \cup (TvIds \X {"tv"})
AlternateRequests == (ContentIds \cup {<<"tv", "rai1">>}) \X ContentTypes

InitStream ==
    /\ now = StartTime
    /\ disk = [file |-> AbsentFile, tmp |-> AbsentFile]
    /\ vavooCache = loadVavooCache(AbsentFile)
    /\ wholeMap = loadVavooCache(AbsentFile).links
    /\ dumpsInFlight = 0
    /\ startupPending = TRUE
    /\ nextPeriodic = StartTime + VAVOO_UPDATE_INTERVAL
    /\ nResolves = 0
    /\ ioFailures = 0
    /\ fallbacks = NoFallbacks
    /\ lastResolve = NoResolve
    /\ lastUpdate = NoUpdate
    /\ lastRefresh = NoRefresh
    /\ flight = [callers |-> 0, launches |-> 0]
    /\ env \in Envs
    /\ configCache = InitialConfig(env)
    /\ req = NoRequest
    /\ lastMerge = NoMerge
    /\ configString = <<>>
    /\ decodeResult = NotDecoded
    /\ handled = NotHandled

NextStream ==
    \/ \E parsedConfig \in ParsedConfigs : Middleware(parsedConfig)
    \/ \E rq \in MainRequests : StreamHandler(rq[1], rq[2])
    \/ \E parsedConfig \in ParsedConfigs, rq \in AlternateRequests :
          StreamHandlerAlternate(parsedConfig, rq[1], rq[2])
    \/ \E out \in PrimaryOutcomes : PrimarySettles(out)
    \/ \E out \in SecondaryOutcomes : SecondarySettles(out)

SpecStream == InitStream /\ [][NextStream]_vars

---------------------------------------------------------------------------
(* Requests with a config segment.  The middleware ends with the call of     *)
(* globalRouter (line 1168), and the handler runs to its first await within  *)
(* that call: the merge of a request and the snapshot of its handler are one *)
(* step, and the steps of other requests come before and after it.           *)

\* the settings the requests carry in their first path segment
RequestConfigs ==
    {EmptyConfig,
     [animesaturnEnabled |-> "on"],
     [mediaFlowProxyUrl |-> "http://p", mediaFlowProxyPassword |-> "pw"],
     [mediaFlowProxyUrl |-> "http://q", animeunityEnabled |-> "on"]}

\* a snapshot of the shared settings as they were before the request's merge
SnapshotBeforeMerge(before, after) == before

\* line 941: { ...configCache }, read after the merge of lines 1131-1155
SnapshotAfterMerge(before, after) == after

\* lines 1115-1168 and 917-1002: a stream request whose first path segment
\* decodes to parsedConfig (to nothing, for a request without settings)
ConfiguredStreamRequest(parsedConfig, id, type) ==
    /\ req.status = "none"
    /\ configCache' = Merged(configCache, parsedConfig)
    /\ lastMerge' = IF DOMAIN parsedConfig # {}
                    THEN [merged |-> TRUE, partial |-> parsedConfig, before |-> configCache]
                    ELSE NoMerge
    /\ req' = StartPrimaryFirst(
                 NewRequest("primaryFirst", id, type,
                            SnapshotAfterMerge(configCache, configCache')))
    /\ UNCHANGED env
    /\ UNCHANGED <<cacheVars, decodeVars>>

\* a request of another resource (manifest, catalog, meta) with settings
OtherRequest(parsedConfig) ==
    /\ DOMAIN parsedConfig # {}
    /\ Middleware(parsedConfig)

NextRequests ==
    \/ \E parsedConfig \in RequestConfigs : OtherRequest(parsedConfig)
    \/ \E parsedConfig \in RequestConfigs, id \in ContentIds, type \in ContentTypes :
          ConfiguredStreamRequest(parsedConfig, id, type)
    \/ \E out \in PrimaryOutcomes : PrimarySettles(out)
    \/ \E out \in SecondaryOutcomes : SecondarySettles(out)

SpecRequests == InitStream /\ [][NextRequests]_vars

---------------------------------------------------------------------------
(* The decoder on its own: one config segment and what it decodes to *)

InitDecode ==
    /\ now = StartTime
    /\ disk = [file |-> AbsentFile, tmp |-> AbsentFile]
    /\ vavooCache = loadVavooCache(AbsentFile)
    /\ wholeMap = loadVavooCache(AbsentFile).links
    /\ dumpsInFlight = 0
    /\ startupPending = TRUE
    /\ nextPeriodic = StartTime + VAVOO_UPDATE_INTERVAL
    /\ nResolves = 0
    /\ ioFailures = 0
    /\ fallbacks = NoFallbacks
    /\ lastResolve = NoResolve
    /\ lastUpdate = NoUpdate
    /\ lastRefresh = NoRefresh
    /\ flight = [callers |-> 0, launches |-> 0]
    /\ env = NoEnv
    /\ configCache = InitialConfig(NoEnv)
    /\ req = NoRequest
    /\ lastMerge = NoMerge
    /\ configString \in ConfigStrings
    /\ decodeResult = NotDecoded
    /\ handled = NotHandled

NextDecode == ParseConfig

SpecDecode == InitDecode /\ [][NextDecode]_vars

\* first path segments that are routes of the addon, not settings
\* manifest.json
Route01 ==
    <<"m", "a", "n", "i", "f", "e", "s", "t", ".", "j", "s", "o", "n">>
\* stream
Route02 ==
    <<"s", "t", "r", "e", "a", "m">>
\* meta
Route03 ==
    <<"m", "e", "t", "a">>
\* metadata-cache
Route04 ==
    <<"m", "e", "t", "a", "d", "a", "t", "a", "-", "c", "a", "c", "h", "e">>
\* configure
Route05 ==
    <<"c", "o", "n", "f", "i", "g", "u", "r", "e">>

RoutingSegments == {<<>>, Route01, Route02, Route03, Route04, Route05}

\* process.env of the deployments the middleware is followed in
SegmentEnvs == {NoEnv,
                [NoEnv EXCEPT !.MFP_URL = "http://m:1", !.MFP_PSW = "pw"]}

\* the middleware on its own: one request and what its first path segment
\* does to the shared settings
InitSegment ==
    /\ now = StartTime
    /\ disk = [file |-> AbsentFile, tmp |-> AbsentFile]
    /\ vavooCache = loadVavooCache(AbsentFile)
    /\ wholeMap = loadVavooCache(AbsentFile).links
    /\ dumpsInFlight = 0
    /\ startupPending = TRUE
    /\ nextPeriodic = StartTime + VAVOO_UPDATE_INTERVAL
    /\ nResolves = 0
    /\ ioFailures = 0
    /\ fallbacks = NoFallbacks
    /\ lastResolve = NoResolve
    /\ lastUpdate = NoUpdate
    /\ lastRefresh = NoRefresh
    /\ flight = [callers |-> 0, launches |-> 0]
    /\ env \in SegmentEnvs
    /\ configCache = InitialConfig(env)
    /\ req = NoRequest
    /\ lastMerge = NoMerge
    /\ configString \in ConfigStrings \cup RoutingSegments
    /\ decodeResult = NotDecoded
    /\ handled = NotHandled

NextSegment == ConfigMiddleware

SpecSegment == InitSegment /\ [][NextSegment]_vars

---------------------------------------------------------------------------
(* The live-TV branch of the alternate handler, lines 1705-1825.  Links,   *)
(* proxy addresses and passwords are sequences of characters; a field that *)
(* a channel or the settings do not have is the empty sequence.            *)

\* http://a/1
LinkOne ==
    <<"h", "t", "t", "p", ":", "/", "/", "a", "/", "1">>

\* http://a/2.mpd
LinkTwo ==
    <<"h", "t", "t", "p", ":", "/", "/", "a", "/", "2", ".", "m", "p", "d">>

\* http://d/3?x=1
LinkD ==
    <<"h", "t", "t", "p", ":", "/", "/", "d", "/", "3", "?", "x", "=", "1">>

\* http://a/4.mpd
LinkMpd ==
    <<"h", "t", "t", "p", ":", "/", "/", "a", "/", "4", ".", "m", "p", "d">>

\* http://v/9
VavooLink ==
    <<"h", "t", "t", "p", ":", "/", "/", "v", "/", "9">>

\* http://m
ProxyBase ==
    <<"h", "t", "t", "p", ":", "/", "/", "m">>

\* http://m/
ProxyBaseSlash ==
    <<"h", "t", "t", "p", ":", "/", "/", "m", "/">>

\* http://o
OtherProxyBase ==
    <<"h", "t", "t", "p", ":", "/", "/", "o">>

\* p w
ProxyPassword ==
    <<"p", " ", "w">>

\* pw
OtherPassword ==
    <<"p", "w">>

\* http://t
TvProxyBase ==
    <<"h", "t", "t", "p", ":", "/", "/", "t">>

\* http://t/
TvProxyBaseSlash ==
    <<"h", "t", "t", "p", ":", "/", "/", "t", "/">>

\* /proxy/mpd/manifest.m3u8?api_password=
MpdPath ==
    <<"/", "p", "r", "o", "x", "y", "/", "m", "p", "d", "/", "m", "a", "n",
      "i", "f", "e", "s", "t", ".", "m", "3", "u", "8", "?", "a", "p", "i",
      "_", "p", "a", "s", "s", "w", "o", "r", "d", "=">>

\* /proxy/stream/?api_password=
StreamPath ==
    <<"/", "p", "r", "o", "x", "y", "/", "s", "t", "r", "e", "a", "m", "/",
      "?", "a", "p", "i", "_", "p", "a", "s", "s", "w", "o", "r", "d", "=">>

\* &d=
DestinationParam ==
    <<"&", "d", "=">>

\* /proxy/m3u?url=
M3uPath ==
    <<"/", "p", "r", "o", "x", "y", "/", "m", "3", "u", "?", "u", "r", "l",
      "=">>

\* .mpd
MpdMark ==
    <<".", "m", "p", "d">>

\* lines 1423-1431
FreeToAirIds ==
    {"rai1", "rai2", "rai3", "rai4", "rai5", "raimovie", "raipremium",
     "raigulp", "raiyoyo", "rainews24", "raistoria", "raiscuola",
     "raisport", "rai4k", "rete4", "canale5", "italia1", "20mediaset",
     "iris", "la5", "twentyseven", "cine34", "focus", "topcrime", "boing",
     "cartoonito", "super", "italia2", "tgcom24", "mediasetextra", "la7",
     "la7d", "tv8", "nove", "cielo", "tv2000", "realtime", "qvc",
     "foodnetwork", "warnertv", "giallo", "k2", "frisbee", "dmax", "hgtv",
     "motortrend", "rtl1025tv", "sportitalia", "donnatv", "supertennis"}

\* a test for which no channel is free to air
isFreeToAirChannelNever(cleanId) == FALSE

\* isFreeToAirChannel(cleanId), lines 1422-1433
isFreeToAirChannel(cleanId) == Len(cleanId) = 1 /\ cleanId[1] \in FreeToAirIds

\* tvChannels (config/tv_channels.json) with the fields of lines 1721-1724:
\* two channels with the same links of which one is free to air, and channels
\* that lack a link, every link or the name
LiveTvChannels ==
    {[id |-> <<"rai1">>, name |-> "Rai 1",
      staticUrl |-> LinkOne, staticUrl2 |-> LinkTwo, staticUrlD |-> <<>>],
     [id |-> <<"sky1">>, name |-> "Sky 1",
      staticUrl |-> LinkOne, staticUrl2 |-> LinkTwo, staticUrlD |-> LinkD],
     [id |-> <<"la7">>, name |-> "La7",
      staticUrl |-> <<>>, staticUrl2 |-> LinkOne, staticUrlD |-> LinkD],
     [id |-> <<"dazn">>, name |-> "Dazn",
      staticUrl |-> <<>>, staticUrl2 |-> <<>>, staticUrlD |-> LinkD],
     [id |-> <<"anon">>, name |-> "",
      staticUrl |-> LinkMpd, staticUrl2 |-> <<>>, staticUrlD |-> <<>>],
     [id |-> <<"vav">>, name |-> "Vav",
      staticUrl |-> <<>>, staticUrl2 |-> <<>>, staticUrlD |-> <<>>]}

\* the ids of the live-TV requests: tv:<channel>, a bare channel, no channel
LiveTvIds == {<<"tv">> \o c.id : c \in LiveTvChannels}
                \cup {<<"sky1">>, <<"tv", "none">>}

\* the settings of the live-TV requests
LiveTvSettings ==
    {EmptyConfig,
     [mfpProxyUrl |-> ProxyBaseSlash, mfpProxyPassword |-> ProxyPassword],
     [mediaFlowProxyUrl |-> ProxyBase, mediaFlowProxyPassword |-> OtherPassword],
     [mfpProxyUrl |-> ProxyBase, mediaFlowProxyUrl |-> OtherProxyBase,
      mediaFlowProxyPassword |-> OtherPassword],
     [mfpProxyUrl |-> ProxyBase],
     [mfpProxyPassword |-> ProxyPassword, tvProxyUrl |-> TvProxyBase],
     [tvProxyUrl |-> TvProxyBaseSlash],
     [mfpProxyUrl |-> ProxyBase, mfpProxyPassword |-> ProxyPassword,
      tvProxyUrl |-> TvProxyBase]}

\* config.key of a key that holds text: the empty text when it is not there
Setting(config, k) == IF k \in DOMAIN config THEN config[k] ELSE <<>>

\* normalizeProxyUrl, lines 1521-1523
normalizeProxyUrl(url) ==
    IF url # <<>> /\ url[Len(url)] = "/" THEN SubSeq(url, 1, Len(url) - 1) ELSE url

\* lines 1717-1718
MfpUrl(config) ==
    IF Setting(config, "mfpProxyUrl") # <<>>
    THEN normalizeProxyUrl(Setting(config, "mfpProxyUrl"))
    ELSE IF Setting(config, "mediaFlowProxyUrl") # <<>>
    THEN normalizeProxyUrl(Setting(config, "mediaFlowProxyUrl"))
    ELSE <<>>

\* line 1719
MfpPsw(config) ==
    IF Setting(config, "mfpProxyPassword") # <<>>
    THEN Setting(config, "mfpProxyPassword")
    ELSE Setting(config, "mediaFlowProxyPassword")

\* line 1720
TvProxyUrl(config) ==
    IF Setting(config, "tvProxyUrl") # <<>>
    THEN normalizeProxyUrl(Setting(config, "tvProxyUrl"))
    ELSE <<>>

\* s.includes(p)
IncludesText(s, p) ==
    \E i \in 1..(Len(s) - Len(p) + 1) : SubSeq(s, i, i + Len(p) - 1) = p

\* lines 1738-1742 and 1764-1768: the link behind the generic proxy
ProxyUrl(mfpUrl, mfpPsw, url) ==
    mfpUrl \o (IF IncludesText(url, MpdMark) THEN MpdPath ELSE StreamPath)
           \o encodeURIComponent(mfpPsw) \o DestinationParam \o url

\* lines 1787 and 1804: a link behind the TV proxy
TvProxied(tvProxyUrl, url) == tvProxyUrl \o M3uPath \o encodeURIComponent(url)

\* an element of streams: { url, title }
TitledStream(icon, name, label, url) ==
    [title |-> icon \o " " \o name \o " (" \o label \o ")", url |-> url]

\* cleanId, line 1707
AlternateCleanId(id) == IF StartsWithColon(id, "tv") THEN Tail(id) ELSE id

\* tvChannels.find(c => c.id === cleanId), line 1708
ChannelFound(cleanId) == \E c \in LiveTvChannels : c.id = cleanId
FindChannel(cleanId) == CHOOSE c \in LiveTvChannels : c.id = cleanId

\* lines 1729-1754 and, with one label for all three cases, 1757-1782
StaticStep(icon, label, url, channel, config) ==
    IF url = <<>> THEN <<>>
    ELSE IF isFreeToAirChannel(channel.id)
    THEN <<TitledStream(icon, channel.name,
                        IF label = "Proxy" THEN "Direct" ELSE label, url)>>
    ELSE IF MfpUrl(config) # <<>> /\ MfpPsw(config) # <<>>
    THEN <<TitledStream(icon, channel.name, label,
                        ProxyUrl(MfpUrl(config), MfpPsw(config), url))>>
    ELSE <<TitledStream(icon, channel.name,
                        IF label = "Proxy" THEN "Direct" ELSE label, url)>>

\* 1. staticUrl, lines 1729-1754
StepStatic(channel, config) ==
    StaticStep("U+1F534", "Proxy", channel.staticUrl, channel, config)

\* 2. staticUrl2, lines 1757-1782
StepStatic2(channel, config) ==
    StaticStep("U+1F3AC", "HD", channel.staticUrl2, channel, config)

\* 3. staticUrlD, lines 1785-1798
StepStaticD(channel, config) ==
    IF channel.staticUrlD = <<>> THEN <<>>
    ELSE IF TvProxyUrl(config) # <<>>
    THEN <<TitledStream("U+1F4F1", channel.name, "D",
                        TvProxied(TvProxyUrl(config), channel.staticUrlD))>>
    ELSE <<TitledStream("U+1F4F1", channel.name, "D", channel.staticUrlD)>>

\* a fourth step that is tried for every channel with a name
AsksVavooWithoutProxy(channel, config) == channel.name # ""

\* line 1801: channelName && tvProxyUrl
AsksVavoo(channel, config) == channel.name # "" /\ TvProxyUrl(config) # <<>>

\* await resolveVavooChannelByName(channelName), line 1803: a link, null, or
\* a rejection
VavooOutcomes ==
    {Outcome("link", VavooLink), Outcome("null", <<>>), Outcome("throw", <<>>)}

\* a fourth step that gives up the list when there is no link
StepVavooOrNothing(streams, channel, config, out) ==
    IF out.kind = "link"
    THEN Append(streams, TitledStream("U+1F31F", channel.name, "Vavoo",
                                      TvProxied(TvProxyUrl(config), out.items)))
    ELSE <<>>

\* 4. Vavoo, lines 1801-1814: streams after the await has settled
StepVavoo(streams, channel, config, out) ==
    IF out.kind = "link"
    THEN Append(streams, TitledStream("U+1F31F", channel.name, "Vavoo",
                                      TvProxied(TvProxyUrl(config), out.items)))
    ELSE streams

\* lines 1817-1821: streams.map(s => ({ name: 'StreamViX TV', ... }))
FinalStreams(streams) ==
    [i \in 1..Len(streams) |->
        [name |-> "StreamViX TV", title |-> streams[i].title, url |-> streams[i].url]]

\* lines 1705-1803: the live-TV branch up to its await, or to its end when
\* Vavoo is not asked
StartLiveTv(r) ==
    IF ~ChannelFound(AlternateCleanId(r.id)) THEN Return(r, <<>>)
    ELSE LET channel == FindChannel(AlternateCleanId(r.id))
             streams == StepStatic(channel, r.config)
                           \o StepStatic2(channel, r.config)
                           \o StepStaticD(channel, r.config)
         IN  IF AsksVavoo(channel, r.config)
             THEN [r EXCEPT !.pc = "vavoo", !.allStreams = streams]
             ELSE Return([r EXCEPT !.allStreams = streams], FinalStreams(streams))

\* lines 1689-1825: the alternate handler is entered with type "tv"
LiveTvHandler(config, id) ==
    /\ req.status = "none"
    /\ req' = StartLiveTv(NewRequest("alternate", id, "tv", config))
    /\ lastMerge' = NoMerge
    /\ UNCHANGED <<env, configCache>>
    /\ UNCHANGED <<cacheVars, decodeVars>>

\* lines 1803-1825: the await of resolveVavooChannelByName settles
VavooSettles(out) ==
    /\ req.status = "pending" /\ req.pc = "vavoo"
    /\ LET channel == FindChannel(AlternateCleanId(req.id))
           streams == StepVavoo(req.allStreams, channel, req.config, out)
       IN  req' = Return([req EXCEPT !.got.vavoo = out, !.allStreams = streams],
                         FinalStreams(streams))
    /\ lastMerge' = NoMerge
    /\ UNCHANGED <<env, configCache>>
    /\ UNCHANGED <<cacheVars, decodeVars>>

InitLiveTv == InitStream /\ env = NoEnv

NextLiveTv ==
    \/ \E config \in LiveTvSettings, id \in LiveTvIds : LiveTvHandler(config, id)
    \/ \E out \in VavooOutcomes : VavooSettles(out)

SpecLiveTv == InitLiveTv /\ [][NextLiveTv]_vars

---------------------------------------------------------------------------
(* Properties of the cache *)

\* what resolve(name) has to serve for a stored entry: the first element of a
\* list, the string itself otherwise
FirstUrl(v) == v.items[1]

\* the cache is older than 12 hours or holds no link
StaleOrEmpty == (now - vavooCache.timestamp > 12 * 60 * 60 * 1000)
                    \/ DOMAIN vavooCache.links = {}

\* C1: single-flight refresh.  At most one bulk-dump subprocess is in flight
\* at any time, and an updateVavooCache() call made while `updating` is true
\* returns false in the same step, starts no subprocess and changes nothing
\* of the cache, the refresh in flight still running.
C1_SingleFlight ==
    /\ dumpsInFlight <= 1
    /\ (lastUpdate.ret # "none" /\ lastUpdate.whileUpdating) =>
          /\ lastUpdate.ret = "false"
          /\ lastUpdate.launched = 0
          /\ ~lastUpdate.changed
          /\ dumpsInFlight = 1

C1_Witness ==
    /\ lastUpdate.whileUpdating
    /\ lastUpdate.ret = "false"
    /\ dumpsInFlight = 1

\* C2: however many resolve() callers find the cache stale or empty while a
\* refresh is in flight, that flight started exactly one bulk-dump subprocess.
C2_OneDumpForConcurrentCallers ==
    flight.callers >= 1 => (flight.launches = 1 /\ dumpsInFlight = 1)

C2_Witness ==
    /\ flight.callers >= 2
    /\ flight.launches = 1
    /\ dumpsInFlight = 1

\* C3: the link map is replaced as a whole.  In every state, and so for every
\* resolve() call, the map read is the last completely produced one: the map
\* loaded at startup or the full map of the latest successful dump (with the
\* single-name results added since), never a partly filled or mixed map.
C3_AtomicReplace ==
    /\ vavooCache.links = wholeMap
    /\ (lastResolve.event = "call" => lastResolve.sawWhole)

\* a resolve() call served from the map a refresh produced, while the next
\* refresh is in flight
C3_Witness ==
    /\ lastResolve.event = "call"
    /\ lastResolve.path = "cached"
    /\ lastResolve.sawWhole
    /\ vavooCache.timestamp >= StartTime
    /\ vavooCache.updating

C5_CachedUrlServed ==
    (lastResolve.event = "call" /\ lastResolve.name \in DOMAIN vavooCache.links) =>
        /\ lastResolve.returned
        /\ lastResolve.result = FirstUrl(vavooCache.links[lastResolve.name])
        /\ lastResolve.linksSame

\* a list entry of a cache older than 12 hours, served while a refresh runs
C5_Witness ==
    /\ lastResolve.event = "call"
    /\ now - vavooCache.timestamp > 12 * 60 * 60 * 1000
    /\ vavooCache.updating
    /\ lastResolve.name \in DOMAIN vavooCache.links
    /\ vavooCache.links[lastResolve.name].isArray
    /\ lastResolve.result = UrlOld2

---------------------------------------------------------------------------
(* Properties of the stream handlers *)

RECURSIVE NonNull(_)
\* the stream URLs of a provider's list that are not null
NonNull(items) ==
    IF items = <<>> THEN <<>>
    ELSE IF Head(items) = "null" THEN NonNull(Tail(items))
    ELSE <<Head(items)>> \o NonNull(Tail(items))

\* the candidates a provider's answer holds
Candidates(out) == IF out.kind = "list" THEN NonNull(out.items) ELSE <<>>

Urls(streams) == [i \in DOMAIN streams |-> streams[i].url]

\* the URLs of the streams that carry a provider's name, in their order
UrlsNamed(streams, tag) ==
    LET Named(st) == st.name = tag IN Urls(SelectSeq(streams, Named))

ProviderTag(p) == CASE p = "vix" -> "StreamViX Vx"
                    [] p = "au" -> "StreamViX AU"
                    [] p = "as" -> "StreamViX AS"

ProvidersCalled == [i \in DOMAIN req.calls |-> req.calls[i].provider]

IsPrefix(s, t) == Len(s) <= Len(t) /\ \A i \in DOMAIN s : s[i] = t[i]

\* a movie or series request (not live TV) has ended, one way or the other
ContentRequestEnded == req.status \in {"returned", "rejected"} /\ req.type # "tv"

\* the request is for a tt... or tmdb:... id and its handler is the primary-first one
MovieSeriesRequest ==
    /\ req.rev = "primaryFirst" /\ req.type # "tv"
    /\ (req.id[1] = "tt1" \/ (req.id[1] = "tmdb" /\ Len(req.id) > 1))

\* the settings of the request, or else the environment, enable a secondary provider
UnityOn == \/ ("animeunityEnabled" \in DOMAIN req.config
                  /\ req.config["animeunityEnabled"] = "on")
           \/ env.ANIMEUNITY_ENABLED \in {"true", "TRUE"}
SaturnOn == \/ ("animesaturnEnabled" \in DOMAIN req.config
                  /\ req.config["animesaturnEnabled"] = "on")
            \/ env.ANIMESATURN_ENABLED \in {"true", "TRUE"}

EnabledSecondaries == (IF UnityOn THEN <<"au">> ELSE <<>>)
                          \o (IF SaturnOn THEN <<"as">> ELSE <<>>)

\* C7: provider isolation.  When a request for a movie, series or anime id
\* has ended, it has ended with a stream list and not with an exception; a
\* provider whose call threw contributes no stream to that list, and every
\* provider that answered with candidates has all of them in the list.
C7_ProviderIsolation ==
    ContentRequestEnded =>
        /\ req.status = "returned"
        /\ \A p \in {"vix", "au", "as"} :
              /\ req.got[p].kind = "throw" => UrlsNamed(req.result, ProviderTag(p)) = <<>>
              /\ (req.got[p].kind = "list" /\ \E q \in {"vix", "au", "as"} :
                                                q # p /\ req.got[q].kind = "throw")
                    => UrlsNamed(req.result, ProviderTag(p)) = Candidates(req.got[p])

\* C8: the stream handler never raises: no request ends with a rejected
\* promise, whatever its id and whatever its providers do.
C8_NeverRaises == req.status # "rejected"

\* C9: for a tt... or tmdb:... id the primary provider is the first one
\* called, and once it has answered with at least one stream URL that is not
\* null the request has returned exactly the primary's candidates, in their
\* order, and no secondary provider was called.
C9_PrimaryFirst ==
    MovieSeriesRequest =>
        /\ req.calls # <<>> /\ req.calls[1].provider = "vix"
        /\ Candidates(req.got.vix) # <<>> =>
              /\ req.status = "returned"
              /\ ProvidersCalled = <<"vix">>
              /\ Urls(req.result) = Candidates(req.got.vix)
              /\ \A i \in DOMAIN req.result : req.result[i].name = "StreamViX Vx"

\* both secondary providers are enabled, the primary answered with a null URL
\* and two candidates, and the request returned these two only
C9_Witness ==
    /\ MovieSeriesRequest /\ UnityOn /\ SaturnOn
    /\ req.got.vix.kind = "list" /\ Len(req.got.vix.items) = 3
    /\ req.status = "returned"
    /\ Len(req.result) = 2
    /\ ProvidersCalled = <<"vix">>

\* C10: for a tt... or tmdb:... id whose primary provider answered with no
\* candidate, and with a secondary provider enabled: the providers called are
\* the primary, then the enabled secondaries, AnimeUnity before AnimeSaturn,
\* each called after the one before it has settled; a disabled secondary is
\* never called; the request returns the candidates of AnimeUnity followed by
\* those of AnimeSaturn, each under its provider's name.
C10_SecondaryFallback ==
    (/\ MovieSeriesRequest
     /\ req.got.vix.kind \in {"null", "list"} /\ Candidates(req.got.vix) = <<>>
     /\ (UnityOn \/ SaturnOn)) =>
        /\ IsPrefix(ProvidersCalled, <<"vix">> \o EnabledSecondaries)
        /\ Len(ProvidersCalled) >= 2
        /\ (ProvidersCalled[Len(ProvidersCalled)] = "as" /\ UnityOn)
              => req.got.au.kind # "notAsked"
        /\ req.status # "rejected"
        /\ req.status = "returned" =>
              /\ ProvidersCalled = <<"vix">> \o EnabledSecondaries
              /\ Urls(req.result) = Candidates(req.got.au) \o Candidates(req.got.as)
              /\ \A i \in DOMAIN req.result :
                    req.result[i].name = IF i <= Len(Candidates(req.got.au))
                                         THEN "StreamViX AU" ELSE "StreamViX AS"

\* the primary found nothing, both secondaries are enabled and answered with
\* candidates, and the request returned all of them
C10_Witness ==
    /\ MovieSeriesRequest /\ UnityOn /\ SaturnOn
    /\ req.got.vix.kind = "list" /\ req.got.vix.items = <<"null">>
    /\ Len(Candidates(req.got.au)) = 2 /\ Len(Candidates(req.got.as)) = 1
    /\ req.status = "returned"
    /\ Len(req.result) = 3

\* the request is for a kitsu:... or mal:... id, under either handler
AnimeRequest ==
    /\ req.rev \in {"primaryFirst", "alternate"} /\ req.type # "tv"
    /\ req.id[1] \in {"kitsu", "mal"} /\ Len(req.id) > 1

\* C11: for a kitsu:... or mal:... id the primary provider is never called,
\* whatever the flags; the providers called are the enabled secondaries and
\* no other, AnimeUnity before AnimeSaturn, the second also when the first
\* threw; the request returns the candidates of the ones that answered, one
\* after the other.
C11_AnimeSecondariesOnly ==
    AnimeRequest =>
        /\ \A i \in DOMAIN req.calls : req.calls[i].provider # "vix"
        /\ req.got.vix.kind = "notAsked"
        /\ IsPrefix(ProvidersCalled, EnabledSecondaries)
        /\ req.status # "rejected"
        /\ req.status = "returned" =>
              /\ ProvidersCalled = EnabledSecondaries
              /\ Urls(req.result) = Candidates(req.got.au) \o Candidates(req.got.as)
              /\ \A i \in DOMAIN req.result :
                    req.result[i].name = IF i <= Len(Candidates(req.got.au))
                                         THEN "StreamViX AU" ELSE "StreamViX AS"

\* a mal: id with both secondaries enabled: AnimeUnity threw, AnimeSaturn
\* answered with two candidates, and these two were returned
C11_Witness ==
    /\ AnimeRequest /\ req.id[1] = "mal"
    /\ UnityOn /\ SaturnOn
    /\ req.got.au.kind = "throw"
    /\ Len(Candidates(req.got.as)) = 2
    /\ req.status = "returned"
    /\ Len(req.result) = 2

\* C13: a merge into the shared settings is a shallow overwrite key by key:
\* every key of the partial holds the partial's value afterwards, every other
\* key holds the value it had before, and no key of the store is removed.
C13_MergeIsOverlay ==
    lastMerge.merged =>
        /\ \A k \in DOMAIN lastMerge.partial :
              k \in DOMAIN configCache /\ configCache[k] = lastMerge.partial[k]
        /\ \A k \in DOMAIN lastMerge.before \ DOMAIN lastMerge.partial :
              k \in DOMAIN configCache /\ configCache[k] = lastMerge.before[k]
        /\ DOMAIN lastMerge.before \subseteq DOMAIN configCache

\* a merge that overwrites a value set by an earlier merge, adds a key and
\* leaves the keys of the environment defaults in place
C13_Witness ==
    /\ lastMerge.merged
    /\ \E k \in DOMAIN lastMerge.partial :
          k \in DOMAIN lastMerge.before /\ lastMerge.before[k] # lastMerge.partial[k]
    /\ \E k \in DOMAIN lastMerge.partial : k \notin DOMAIN lastMerge.before
    /\ "enableLiveTV" \in DOMAIN lastMerge.before \ DOMAIN lastMerge.partial

\* C14: the settings a stream request passes to its providers are the copy of
\* the shared settings made when its handler started; a merge made for another
\* request while it waits changes neither that copy nor the settings of its
\* later calls, and no step of the handler changes the shared settings.
C14_SnapshotIsACopy ==
    [][/\ (req.status = "pending" /\ req.rev = "primaryFirst") =>
              /\ req'.config = req.config
              /\ \A i \in 1..Len(req'.calls) : req'.calls[i].settings = req.config
       /\ configCache' # configCache => lastMerge'.merged]_vars

\* a request that waited for the primary provider while a merge changed the
\* shared settings, and then called a secondary provider
C14_Witness ==
    /\ req.rev = "primaryFirst" /\ req.status = "pending"
    /\ Len(req.calls) = 2
    /\ req.calls[2].settings = req.config
    /\ configCache # req.config

---------------------------------------------------------------------------
(* Properties of the cache file and of the single-name resolver *)

\* C15: whatever happens during a save, a failed write or a stop between the
\* write of the temporary file and the rename included, the cache file is
\* absent or holds one complete snapshot {timestamp, links}; after a save that
\* went through it is the snapshot of the cache.  Only the temporary file can
\* be partial.
C15_CacheFileNeverPartial ==
    /\ disk.file.state \in {"absent", "complete"}
    /\ (lastRefresh.failure = "none" /\ lastRefresh.ret) =>
           disk.file = CompleteFile(vavooCache.timestamp, vavooCache.links)

\* a save stopped in the write of the temporary file, under a cache file
\* written by an earlier save
C15_Witness ==
    /\ disk.tmp.state = "partial"
    /\ disk.file.state = "complete"
    /\ disk.file.timestamp > StartTime - CACHE_MAX_AGE
    /\ lastRefresh.failure = "io"

\* the call of the latest step asked for Channel A
AskedChannelA == lastResolve.event = "call" /\ lastResolve.name = ChannelA

\* the call found the cache as an absent file leaves it: never refreshed and
\* without a link for the name
NothingLoaded == vavooCache.timestamp = 0 /\ lastResolve.raw = NoValue

\* the cache is no older than the freshness window of 12 hours
WithinFreshness == now - vavooCache.timestamp <= CACHE_MAX_AGE

\* a refresh that gave Channel A the link http://x/y stands in the cache file
\* with the timestamp the cache has now
RefreshedWithXY ==
    /\ disk.file.state = "complete"
    /\ disk.file.timestamp = vavooCache.timestamp
    /\ MapHas(disk.file.links, ChannelA)
    /\ disk.file.links[ChannelA] = Str(UrlXY)

\* C16 as stated: with nothing loaded at startup, resolve("Channel A") returns
\* null and a refresh is under way; after a refresh that completed with
\* Channel A -> http://x/y, every resolve("Channel A") within the freshness
\* window returns http://x/y and starts no subprocess.
C16_AbsentFileScenario ==
    /\ (AskedChannelA /\ NothingLoaded) =>
           /\ lastResolve.returned /\ lastResolve.result = Null
           /\ lastResolve.refreshing
    /\ (AskedChannelA /\ WithinFreshness /\ RefreshedWithXY) =>
           /\ lastResolve.returned /\ lastResolve.result = UrlXY
           /\ lastUpdate = NoUpdate
           /\ fallbacks[ChannelA].waiting = 0

\* C16: with nothing loaded at startup, resolve("Channel A") puts a refresh
\* under way and hands the name to the single-name resolver instead of
\* returning; a resolve("Channel A") within the freshness window that finds
\* the link http://x/y of a completed refresh in the map returns it and
\* starts no subprocess.
C16_AbsentFileThenCached ==
    /\ (AskedChannelA /\ NothingLoaded) =>
           /\ lastResolve.path = "fallback" /\ ~lastResolve.returned
           /\ lastResolve.refreshing
           /\ fallbacks[ChannelA].waiting > 0
    /\ (AskedChannelA /\ WithinFreshness /\ lastResolve.raw = Str(UrlXY)) =>
           /\ lastResolve.returned /\ lastResolve.result = UrlXY
           /\ lastUpdate = NoUpdate
           /\ lastResolve.path = "cached"

\* the second call of the scenario: the first one found nothing loaded, a
\* refresh brought Channel A -> http://x/y, and this call is served from it
C16_Witness ==
    /\ AskedChannelA /\ WithinFreshness
    /\ lastResolve.raw = Str(UrlXY) /\ lastResolve.result = UrlXY
    /\ RefreshedWithXY
    /\ nResolves = 2
    /\ fallbacks[ChannelA].waiting + fallbacks[ChannelA].timedOut > 0

\* C17: a call reaches the single-name resolver only with a cache that was
\* never populated (timestamp 0); when the resolver answers with a link, the
\* link is put into the in-memory map under the name and nothing else changes:
\* the other entries, the timestamp, the updating flag and the files stay.
C17_FallbackInsertsOnly ==
    [][/\ (lastResolve'.event = "call" /\ lastResolve'.path = "fallback") =>
              /\ vavooCache.timestamp = 0
              /\ fallbacks'[lastResolve'.name].waiting
                     = fallbacks[lastResolve'.name].waiting + 1
       /\ (lastResolve'.event = "call" /\ lastResolve'.path # "fallback") =>
              fallbacks' = fallbacks
       /\ lastResolve'.event = "callback" =>
              /\ vavooCache'.timestamp = vavooCache.timestamp
              /\ vavooCache'.updating = vavooCache.updating
              /\ disk' = disk
              /\ \A n \in DOMAIN vavooCache'.links :
                    n # lastResolve'.name =>
                       n \in DOMAIN vavooCache.links
                          /\ vavooCache'.links[n] = vavooCache.links[n]
              /\ DOMAIN vavooCache.links \subseteq DOMAIN vavooCache'.links
              /\ (lastResolve'.returned /\ lastResolve'.result # Null) =>
                    vavooCache'.links =
                       MapSet(vavooCache.links, lastResolve'.name,
                              Str(lastResolve'.result))]_vars

\* the single-name resolver answered the waiting call with a link, under a
\* cache that was never populated and without a cache file
C17_Witness ==
    /\ lastResolve.event = "callback" /\ lastResolve.returned
    /\ lastResolve.result = UrlOne
    /\ vavooCache.timestamp = 0
    /\ vavooCache.links = MapSet(EmptyMap, ChannelA, Str(UrlOne))
    /\ disk.file.state = "absent"

\* C18: when the single-name resolver does not give a link, because the 5 s
\* timer fires, the process ends with an error or its output is empty, the
\* call returns null and the link map and the timestamp stay as they were.
C18_FallbackFailureIsNull ==
    [][/\ lastResolve'.event = "timeout" =>
              /\ lastResolve'.returned /\ lastResolve'.result = Null
              /\ vavooCache' = vavooCache
       /\ (lastResolve'.event = "callback" /\ lastResolve'.out \in {"error", "empty"}) =>
              /\ lastResolve'.returned => lastResolve'.result = Null
              /\ lastResolve'.returned \/ lastResolve'.prior = Null
              /\ vavooCache' = vavooCache]_vars

\* the resolver of a waiting call printed nothing: the call got null and the
\* map is still empty
C18_Witness ==
    /\ lastResolve.event = "callback" /\ lastResolve.out = "empty"
    /\ lastResolve.returned /\ lastResolve.result = Null
    /\ vavooCache.links = EmptyMap /\ vavooCache.timestamp = 0

\* C19: when the 5 s timer has already answered a call with null, the later
\* callback of its subprocess is without effect: the call's result stays null
\* and the link map stays as it was.
C19_LateCompletionDiscarded ==
    [][(lastResolve'.event = "callback" /\ lastResolve'.prior = Null) =>
            /\ lastResolve'.result = Null
            /\ vavooCache'.links = vavooCache.links]_vars

\* C20: no call waits for ever, whether the resolver process answers or not:
\* a call that waits for the single-name resolver is answered (with null, by
\* the 5 s timer, at the latest), and a refresh that waits for the dump comes
\* back from its await (with false, by the 30 s limit, at the latest).
C20_EveryCallReturns ==
    /\ (fallbacks[ChannelA].waiting > 0) ~> (fallbacks[ChannelA].waiting = 0)
    /\ (dumpsInFlight > 0) ~> (dumpsInFlight = 0 /\ ~vavooCache.updating)

\* the 5 s timer has answered the call with null, and the refresh it started
\* has come back without a link map
C20_Witness ==
    /\ lastResolve.event = "timeout" /\ lastResolve.returned
    /\ lastResolve.result = Null
    /\ fallbacks[ChannelA].waiting = 0
    /\ dumpsInFlight = 0 /\ ~vavooCache.updating
    /\ vavooCache.timestamp = 0

\* C21: a refresh whose write of the cache file fails still returns true and
\* leaves the refreshed map and timestamp in memory, from where the calls are
\* served; the cache file stays as it was, and the next refresh that gets its
\* map writes the file again.
C21_WriteFailureKeepsMemory ==
    [][/\ lastRefresh'.failure = "io" =>
              /\ lastRefresh'.ret
              /\ vavooCache'.links = wholeMap' /\ vavooCache'.timestamp = now'
              /\ disk'.file = disk.file
       /\ lastRefresh'.failure = "none" =>
              /\ disk'.file = CompleteFile(vavooCache'.timestamp, vavooCache'.links)
              /\ disk'.tmp = AbsentFile
       /\ (lastResolve'.event = "call"
              /\ lastResolve'.name \in DOMAIN vavooCache'.links) =>
              lastResolve'.result = FirstUrl(vavooCache'.links[lastResolve'.name])]_vars

\* after a refresh whose write failed, a later refresh has written the file
C21_Witness ==
    /\ lastRefresh.failure = "none"
    /\ ioFailures = 1
    /\ disk.file = CompleteFile(vavooCache.timestamp, vavooCache.links)
    /\ disk.tmp = AbsentFile

---------------------------------------------------------------------------
(* Properties of the decoder *)

\* C12: parseConfigFromArgs ends for every segment without an exception, and
\* for a segment that is empty or carries no settings it gives the empty
\* settings, an object without keys.
C12_MalformedGivesEmpty ==
    decodeResult # NotDecoded =>
        /\ decodeResult.stage \in {"none", "direct", "percent", "base64", "extract"}
        /\ configString \in MalformedSegments =>
              decodeResult.value = [t |-> "object", s |-> <<>>, items |-> <<>>]

\* the segments the cascade is not entered for, line 409
NotGiven(args) ==
    args \in {<<>>, <<"u", "n", "d", "e", "f", "i", "n", "e", "d">>, <<"n", "u", "l", "l">>}

\* the text the percent stage hands on, and whether it decoded anything
PercentText(args) ==
    IF Includes(args, "%") /\ decodeURIComponent(args).ok
    THEN decodeURIComponent(args).text ELSE args

PercentUsable(args) == Includes(args, "%") /\ decodeURIComponent(args).ok

\* the text the base64 stage decodes its input to
Base64Text(decodedArgs) ==
    ToUtf8String(BufferFromBase64(
        Padded(StripTrailingEquals(ReplaceEscapedEquals(decodedArgs, 1)))))

\* the base64 stage is entered and finds both braces in the decoded text
Base64Entered(decodedArgs) ==
    /\ StartsWith(decodedArgs, <<"e", "y", "J">>) \/ LooksBase64(decodedArgs)
    /\ Includes(Base64Text(decodedArgs), "{")
    /\ Includes(Base64Text(decodedArgs), "}")

\* C22: the stages of the decoder are tried in order and the first that gives
\* a value decides: the segment parsed as it is; then the percent-decoded
\* segment parsed; then the base64-decoded text parsed; and only when that
\* does not parse, the text between its braces.
C22_FirstStageWins ==
    (decodeResult # NotDecoded /\ ~NotGiven(configString)) =>
        LET direct  == JSONParse(configString)
            percent == JSONParse(PercentText(configString))
            byPct   == PercentUsable(configString) /\ percent.ok
            text    == Base64Text(PercentText(configString))
            entered == Base64Entered(PercentText(configString))
            outer   == JSONParse(text)
            extract == JSONParse(BraceMatch(text))
        IN  /\ direct.ok => decodeResult = Decoded("direct", direct.v)
            /\ (~direct.ok /\ byPct) => decodeResult = Decoded("percent", percent.v)
            /\ (~direct.ok /\ ~byPct /\ entered /\ outer.ok) =>
                  decodeResult = Decoded("base64", outer.v)
            /\ (~direct.ok /\ ~byPct /\ entered /\ ~outer.ok /\ extract.ok) =>
                  decodeResult = Decoded("extract", extract.v)
            /\ (~direct.ok /\ ~byPct /\ ~(entered /\ (outer.ok \/ extract.ok))) =>
                  decodeResult = Decoded("none", EmptySettings)

\* a segment whose base64 text parses as a whole and holds, between its
\* braces, a text that parses to something else: the whole is taken
C22_Witness ==
    /\ decodeResult.stage = "base64"
    /\ JSONParse(BraceMatch(Base64Text(PercentText(configString)))).ok
    /\ JSONParse(BraceMatch(Base64Text(PercentText(configString)))).v # decodeResult.value

\* the settings a text stands for
SettingsOf(text) == JSONParse(text).v

\* C23: a settings mapping sent as its JSON text, percent-encoded, or in
\* base64 with or without the trailing padding is decoded to exactly that
\* mapping, by the stage that belongs to the encoding.
C23_RoundTrip ==
    decodeResult # NotDecoded =>
        \A text \in SettingsTexts :
            /\ configString = text =>
                  decodeResult = Decoded("direct", SettingsOf(text))
            /\ (configString = encodeURIComponent(text) /\ configString # text) =>
                  decodeResult = Decoded("percent", SettingsOf(text))
            /\ configString \in {Base64Encode(text),
                                 StripTrailingEquals(Base64Encode(text))} =>
                  decodeResult = Decoded("base64", SettingsOf(text))

\* base64 without its padding, decoded to a mapping with a key
C23_Witness ==
    /\ \E text \in SettingsTexts :
          /\ configString = StripTrailingEquals(Base64Encode(text))
          /\ configString # Base64Encode(text)
          /\ decodeResult = Decoded("base64", SettingsOf(text))
    /\ Len(decodeResult.value.items) > 0

---------------------------------------------------------------------------
(* Properties of the middleware *)

\* a first path segment that is too short or begins with a routing token
Skipped(cs) ==
    \/ Len(cs) <= 10
    \/ StartsWith(cs, <<"s", "t", "r", "e", "a", "m">>)
    \/ StartsWith(cs, <<"m", "e", "t", "a">>)
    \/ StartsWith(cs, <<"m", "a", "n", "i", "f", "e", "s", "t">>)

\* C24: a first path segment of length <= 10, or one that begins with
\* stream, meta or manifest, is never passed to the decoder, and the request
\* leaves the shared settings as they were.
C24_SkippedSegmentUntouched ==
    (handled.ran /\ Skipped(configString)) =>
        /\ ~handled.passed
        /\ decodeResult = NotDecoded
        /\ ~lastMerge.merged
        /\ configCache = InitialConfig(env)

\* settings in ten characters, which would decode, were skipped
C24_Witness ==
    /\ handled.ran
    /\ configString = SettingsShort
    /\ Len(configString) = 10
    /\ JSONParse(configString).ok

\* eyJ0bWRiQXBpS2V5IjoiWCJ9
ScenarioSegment ==
    <<"e", "y", "J", "0", "b", "W", "R", "i", "Q", "X", "B", "p", "S", "2",
      "V", "5", "I", "j", "o", "i", "W", "C", "J", "9">>

\* C25: the segment eyJ0bWRiQXBpS2V5IjoiWCJ9 is decoded by the base64 stage
\* to {tmdbApiKey: "X"}, and its merge sets tmdbApiKey in the shared settings
\* and leaves every other key as it was.
C25_TmdbScenario ==
    (handled.ran /\ configString = ScenarioSegment) =>
        /\ decodeResult = Decoded("base64", SettingsOf(SettingsTmdb))
        /\ AsConfig(decodeResult.value) = [tmdbApiKey |-> "X"]
        /\ lastMerge.merged
        /\ DOMAIN configCache = DOMAIN InitialConfig(env) \cup {"tmdbApiKey"}
        /\ configCache["tmdbApiKey"] = "X"
        /\ \A k \in DOMAIN InitialConfig(env) :
              configCache[k] = InitialConfig(env)[k]

\* the scenario's segment was merged into settings that hold a proxy
C25_Witness ==
    /\ handled.ran
    /\ configString = ScenarioSegment
    /\ lastMerge.merged
    /\ configCache["mfpProxyUrl"] = "http://m:1"

---------------------------------------------------------------------------
(* Properties of the settings at the point of use *)

\* the handler went past the live-TV branch and computed the provider flags
FlagsComputed == req.status # "none" /\ req.type # "tv"

\* C26: a default of the environment is used only when the settings have no
\* such key; a provider flag that is present in the settings decides alone,
\* so a flag that is present and not 'on' leaves the provider disabled
\* whatever the environment says.
C26_SettingsFlagDecides ==
    FlagsComputed =>
        /\ "animeunityEnabled" \in DOMAIN req.config =>
              (req.animeUnityEnabled <=> req.config["animeunityEnabled"] = "on")
        /\ "animesaturnEnabled" \in DOMAIN req.config =>
              (req.animeSaturnEnabled <=> req.config["animesaturnEnabled"] = "on")

---------------------------------------------------------------------------
(* Properties of the content id *)

\* the calls that were given a season, an episode and isMovie parsed from
\* the id of the request
ParsedCalls ==
    {i \in 1..Len(req.calls) :
        req.calls[i].method \in {"handleImdbRequest", "handleTmdbRequest"}}

\* C27: an id of one segment is a movie without season and episode, an id
\* of two segments has an episode and no season, an id of three segments has
\* a season and an episode.
C27_SegmentsDecidePresence ==
    \A i \in ParsedCalls :
        LET c == req.calls[i]
        IN  /\ Len(req.id) = 1 =>
                  c.isMovie /\ c.season = Null /\ c.episode = Null
            /\ Len(req.id) = 2 =>
                  ~c.isMovie /\ c.season = Null /\ c.episode # Null
            /\ Len(req.id) = 3 =>
                  ~c.isMovie /\ c.season # Null /\ c.episode # Null

\* a provider was called for tmdb:5, an id of two segments
C27_Witness ==
    \E i \in ParsedCalls :
        /\ req.id = <<"tmdb", "5">>
        /\ req.calls[i].episode = "5"
        /\ req.calls[i].season = Null

\* C28: of the season and the episode parsed from an id, both are there or
\* neither is.
C28_SeasonAndEpisodeTogether ==
    \A i \in ParsedCalls :
        (req.calls[i].season = Null) <=> (req.calls[i].episode = Null)

---------------------------------------------------------------------------
(* Properties of the live-TV branch *)

\* the live-TV branch of the alternate handler returned for a known channel
LiveTvEnded ==
    /\ req.rev = "alternate" /\ req.type = "tv" /\ req.status = "returned"
    /\ ChannelFound(AlternateCleanId(req.id))

\* the channel of the request
LiveChannel == FindChannel(AlternateCleanId(req.id))

\* the settings hold a generic proxy address and a password for it
ProxyConfigured ==
    /\ \E k \in {"mfpProxyUrl", "mediaFlowProxyUrl"} : Setting(req.config, k) # <<>>
    /\ \E k \in {"mfpProxyPassword", "mediaFlowProxyPassword"} :
          Setting(req.config, k) # <<>>

EndsWith(s, q) == Len(s) >= Len(q) /\ SubSeq(s, Len(s) - Len(q) + 1, Len(s)) = q

\* the link itself is in the list
EmittedUnmodified(link) == \E i \in 1..Len(req.result) : req.result[i].url = link

\* the link is in the list behind the generic proxy: the address of the
\* proxy, the path of the template that fits the link, the password, the link
EmittedWrapped(link) ==
    \E i \in 1..Len(req.result) :
        LET u == req.result[i].url
        IN  /\ u # link
            /\ StartsWith(u, MfpUrl(req.config) \o <<"/", "p", "r", "o", "x", "y", "/">>)
            /\ IncludesText(u, IF IncludesText(link, MpdMark) THEN MpdPath ELSE StreamPath)
            /\ IncludesText(u, encodeURIComponent(MfpPsw(req.config)) \o DestinationParam)
            /\ EndsWith(u, DestinationParam \o link)

\* C29: the primary and the secondary static link of a free-to-air channel
\* are emitted as they are whatever the proxy settings; those of any other
\* channel are emitted inside the generic proxy template when the settings
\* hold both the proxy address and its password, and as they are otherwise.
C29_FreeToAirUnwrapped ==
    LiveTvEnded =>
        \A link \in {LiveChannel.staticUrl, LiveChannel.staticUrl2} \ {<<>>} :
            IF LiveChannel.id[1] \in FreeToAirIds \/ ~ProxyConfigured
            THEN EmittedUnmodified(link) /\ ~EmittedWrapped(link)
            ELSE EmittedWrapped(link) /\ ~EmittedUnmodified(link)

\* sky1 and rai1 have the same links: with a proxy and its password in the
\* settings the first link of sky1 was emitted behind the proxy
C29_Witness ==
    /\ LiveTvEnded /\ ProxyConfigured
    /\ req.id = <<"tv", "sky1">>
    /\ LiveChannel.staticUrl = FindChannel(<<"rai1">>).staticUrl
    /\ req.result[1].url =
          ProxyBase \o StreamPath \o <<"p", "%", "2", "0", "w">>
                    \o DestinationParam \o LinkOne

\* the titles by which the streams of a step are known
StepTitles(channel, k) ==
    CASE k = 1 -> {"U+1F534 " \o channel.name \o " (Direct)",
                   "U+1F534 " \o channel.name \o " (Proxy)"}
      [] k = 2 -> {"U+1F3AC " \o channel.name \o " (HD)"}
      [] k = 3 -> {"U+1F4F1 " \o channel.name \o " (D)"}
      [] k = 4 -> {"U+1F31F " \o channel.name \o " (Vavoo)"}

\* the positions of the list that hold a stream of step k
StepPositions(k) ==
    {i \in 1..Len(req.result) : req.result[i].title \in StepTitles(LiveChannel, k)}

\* what makes a step contribute: its own field of the channel and, for the
\* fourth, the TV proxy of the settings and the link it was given
StepContributes(k) ==
    CASE k = 1 -> LiveChannel.staticUrl # <<>>
      [] k = 2 -> LiveChannel.staticUrl2 # <<>>
      [] k = 3 -> LiveChannel.staticUrlD # <<>>
      [] k = 4 -> /\ LiveChannel.name # ""
                  /\ Setting(req.config, "tvProxyUrl") # <<>>
                  /\ req.got.vavoo.kind = "link"

\* C30: the live-TV list is what the four steps contribute, in the order of
\* the steps; a step contributes exactly when its own channel field and
\* settings say so, whatever the other steps did, and a fourth step that
\* ends with null or with an error takes nothing of the first three away.
C30_StepsAreAdditive ==
    LiveTvEnded =>
        /\ \A i \in 1..Len(req.result) :
              /\ \E k \in 1..4 : i \in StepPositions(k)
              /\ req.result[i].name = "StreamViX TV"
        /\ \A k \in 1..4 :
              Cardinality(StepPositions(k)) = IF StepContributes(k) THEN 1 ELSE 0
        /\ \A k1, k2 \in 1..4 :
              \A i1 \in StepPositions(k1), i2 \in StepPositions(k2) :
                  k1 < k2 => i1 < i2

\* the fourth step was given null and the three static links are all there
C30_Witness ==
    /\ LiveTvEnded
    /\ req.got.vavoo.kind = "null"
    /\ Len(req.result) = 3
    /\ \A k \in 1..3 : StepPositions(k) = {k}

\* the link is in the list behind the TV proxy: the address of the proxy
\* without its trailing slash, the path of the template, the encoded link
EmittedBehindTvProxy(link) ==
    \E i \in 1..Len(req.result) :
        LET u == req.result[i].url
        IN  /\ u # link
            /\ \E base \in {TvProxyBase} :
                  /\ Setting(req.config, "tvProxyUrl") \in {base, base \o <<"/">>}
                  /\ u = base \o M3uPath \o encodeURIComponent(link)

\* the resolver of the fourth step was called
VavooAsked == req.pc = "vavoo" \/ req.got.vavoo.kind # "notAsked"

\* C31: the dynamically resolved link is looked for only when the settings
\* hold a TV proxy address, and it is emitted behind the TV proxy, never as
\* it is; the tertiary static link is emitted behind the TV proxy when the
\* settings hold its address and as it is otherwise.
C31_DynamicLinkOnlyBehindTvProxy ==
    /\ (req.rev = "alternate" /\ req.type = "tv" /\ VavooAsked) =>
          Setting(req.config, "tvProxyUrl") # <<>>
    /\ LiveTvEnded =>
          /\ ~EmittedUnmodified(VavooLink)
          /\ req.got.vavoo.kind = "link" => EmittedBehindTvProxy(VavooLink)
          /\ LiveChannel.staticUrlD # <<>> =>
                IF Setting(req.config, "tvProxyUrl") # <<>>
                THEN /\ EmittedBehindTvProxy(LiveChannel.staticUrlD)
                     /\ ~EmittedUnmodified(LiveChannel.staticUrlD)
                ELSE EmittedUnmodified(LiveChannel.staticUrlD)

\* with http://t/ for the TV proxy both the tertiary and the resolved link
\* were emitted behind http://t/proxy/m3u?url=
C31_Witness ==
    /\ LiveTvEnded
    /\ Setting(req.config, "tvProxyUrl") = TvProxyBaseSlash
    /\ req.got.vavoo.kind = "link"
    /\ EmittedBehindTvProxy(VavooLink)
    /\ EmittedBehindTvProxy(LinkD)
    /\ \E i \in 1..Len(req.result) :
          Len(req.result[i].url) = Len(TvProxyBase) + Len(M3uPath) + Len(VavooLink) + 8

---------------------------------------------------------------------------
(* Properties of the startup block *)

\* the step is a call of updateVavooCache() by a timer
TimerCalledRefresh == lastUpdate'.ret # "none"

\* the instants at which the interval timer comes due within the bound
PeriodicInstants ==
    {StartTime + k * VAVOO_UPDATE_INTERVAL : k \in 1..(MaxClockTicks \div 2)}

RefreshEnded == lastRefresh'.failure # "never"

\* C33: a refresh that started ends, and it ends with the updating flag
\* false whether the dump succeeded, failed, printed nothing or something
\* unparseable, or ran out of time; the flag is true exactly while a dump is
\* in flight, so the refresh that follows a failed one is not turned away.
C33_FlagAlwaysReset ==
    /\ [](vavooCache.updating <=> dumpsInFlight > 0)
    /\ vavooCache.updating ~> ~vavooCache.updating
    /\ [][RefreshEnded => ~vavooCache'.updating /\ ~lastRefresh'.flagAfter]_vars
    /\ [][(lastUpdate'.ret # "none" /\ dumpsInFlight = 0) =>
             lastUpdate'.launched = 1]_vars

\* no cache file, the refresh of the startup timer failed, and the call of
\* the interval timer twelve hours later started a dump
C33_Witness ==
    /\ now = StartTime + VAVOO_UPDATE_INTERVAL
    /\ vavooCache.timestamp = 0
    /\ lastUpdate.launched = 1
    /\ vavooCache.updating

---------------------------------------------------------------------------
(* Properties of the link map under interleaving *)

\* the step is the end of a refresh that took the links of its dump
DumpTaken == lastRefresh'.ret

\* C34: once the timestamp is non-zero the link map is that of the latest
\* successful dump: it is set by the end of a successful refresh and by no
\* other step, so no single-name resolution puts an entry into it.
C34_MapIsLatestDump ==
    [][(vavooCache'.timestamp # 0 /\ ~DumpTaken) =>
            vavooCache'.links = vavooCache.links]_vars

\* the step is a call of resolve(name) on an initialised cache whose map
\* does not hold the name
MissedCall ==
    /\ lastResolve'.event = "call"
    /\ vavooCache.timestamp > 0
    /\ ~MapHas(vavooCache.links, lastResolve'.name)

\* C35: on an initialised cache (timestamp > 0) resolve(name) for a name the
\* map does not hold returns null, does not call the single-name resolver,
\* and starts a bulk refresh exactly when none is in flight, also when the
\* map is not empty and younger than 12 hours.
C35_MissReturnsNullAndRefreshes ==
    [][MissedCall =>
          /\ lastResolve'.returned /\ lastResolve'.result = Null
          /\ fallbacks' = fallbacks
          /\ dumpsInFlight' = 1
          /\ dumpsInFlight' - dumpsInFlight = IF dumpsInFlight = 0 THEN 1 ELSE 0
          /\ vavooCache'.links = vavooCache.links
          /\ vavooCache'.timestamp = vavooCache.timestamp]_vars

\* a name missed in a map that is neither empty nor old: null, and a dump
\* started by the call
C35_Witness ==
    /\ lastResolve.event = "call" /\ lastResolve.path = "miss"
    /\ lastResolve.returned /\ lastResolve.result = Null
    /\ MapSize(vavooCache.links) > 0
    /\ now - vavooCache.timestamp <= CACHE_MAX_AGE
    /\ lastUpdate.launched = 1
    /\ fallbacks = NoFallbacks

---------------------------------------------------------------------------
(* Properties of the settings across requests *)

\* the step is the entry of a stream request into its handler
HandlerEntered == req.status = "none" /\ req'.status # "none"

C37_SettingsOfOwnSegmentOnly ==
    [][HandlerEntered =>
          req'.config = Merged(InitialConfig(env), lastMerge'.partial)]_vars

\* the keys of the JSON object a segment was decoded to
DecodedObjectKeys ==
    IF decodeResult.value.t = "object"
    THEN {Text(decodeResult.value.items[i].k) : i \in 1..Len(decodeResult.value.items)}
    ELSE {}

\* C38: every key of the shared settings is a key of the initial defaults
\* or a key of a JSON object that a request's config segment was decoded to;
\* a segment that is decoded to a string, a number, an array or a boolean
\* leaves the shared settings as they were.
C38_KeysFromObjectsOnly ==
    handled.ran =>
        /\ DOMAIN configCache \subseteq DOMAIN InitialConfig(env) \cup DecodedObjectKeys
        /\ decodeResult.value.t \in {"string", "number", "array", "boolean"} =>
              configCache = InitialConfig(env)

---------------------------------------------------------------------------
(* Properties of the tmdb ids *)

\* the calls of handleTmdbRequest
TmdbCalls ==
    {i \in 1..Len(req.calls) : req.calls[i].method = "handleTmdbRequest"}

\* C39: before a secondary provider is called, tmdb:<id> is parsed as a
\* movie, without season and episode, and tmdb:<id>:<s>:<e> as season s and
\* episode e; the prefix tmdb is not taken for a segment of the numbering.
C39_TmdbPrefixNotCounted ==
    \A i \in TmdbCalls :
        LET c == req.calls[i]
        IN  /\ Len(req.id) = 2 =>
                  c.isMovie /\ c.season = Null /\ c.episode = Null
            /\ Len(req.id) = 4 =>
                  /\ ~c.isMovie
                  /\ c.season = ParseInt(req.id[3])
                  /\ c.episode = ParseInt(req.id[4])

====
